---- MODULE Spec2Model ----
(***************************************************************************)
(* Orchestration middleware for parallel agents: the snapshot store        *)
(* (FileStateTracker), the write gatekeeper (writeFilePreHook), the        *)
(* post-write recorder (writeFilePostHook), the ledger (appendToTraceLog)  *)
(* and the intent map (updateIntentMap), modelled as a state machine whose *)
(* steps are the suspension points (await) of the asynchronous handlers.   *)
(***************************************************************************)
EXTENDS Integers, Sequences, FiniteSets, TLC

(***************************************************************************)
(* Bounds and finite domains                                               *)
(***************************************************************************)
\* every file is rewritten at most this many times (guard of the writes)
MaxVer == 2

\* direct calls of the recorder, the ledger writer, the map writer and the
\* lessons store made in one run
MaxCalls == 2

Agents == {"a1", "a2"}
\* workspace-relative paths, as sequences of segments
Paths == {<<"src", "a.ts">>, <<"src", "b.ts">>}
\* the file the agents of the write flows contend for
FlowPaths == {<<"src", "a.ts">>}
\* an absent Map entry / undefined object
Nil == [nil |-> TRUE]
\* readFile failing (file missing or unreadable)
ENOENT == <<"ENOENT">>

\* file contents are strings, modelled as sequences of characters
ContentX == <<"x", "\n">>
ContentXcrlf == <<"x", "\r", "\n">>
ContentY == <<"y", "\n">>
Contents == {ContentX, ContentXcrlf, ContentY}

\* 5 * 60 * 1000 ms
DEFAULT_MAX_AGE == 300000
\* git.ts
CACHE_TTL_MS == 5000
\* the instants at which the clock is observed
Times == {0, DEFAULT_MAX_AGE + 1}

(***************************************************************************)
(* Hasher (hashing.ts)                                                     *)
(***************************************************************************)
RECURSIVE replaceCRLF(_)
replaceCRLF(s) ==
    IF Len(s) = 0 THEN <<>>
    ELSE IF Len(s) >= 2 /\ s[1] = "\r" /\ s[2] = "\n"
         THEN <<"\n">> \o replaceCRLF(SubSeq(s, 3, Len(s)))
         ELSE <<s[1]>> \o replaceCRLF(Tail(s))

replaceCR(s) == [i \in 1..Len(s) |-> IF s[i] = "\r" THEN "\n" ELSE s[i]]

normalizeLineEndings(content) == replaceCR(replaceCRLF(content))

\* SHA-256 is taken to be collision free: the digest of a string is
\* identified with the normalised string that is fed to the hash.
sha256(content) == normalizeLineEndings(content)


(***************************************************************************)
(* State                                                                   *)
(***************************************************************************)
VARIABLES
    disk,        \* workspace files: path -> content, or ENOENT
    snapshots,   \* FileStateTracker.snapshots: path -> FileSnapshot, or Nil
    now,         \* Date.now()
    traceLog,    \* .orchestration/agent_trace.jsonl, one entry per line
    intentMap,   \* .orchestration/intent_map.md: its lines, or ENOENT
    gitCache,    \* git.ts cache entry of the workspace root, or Nil
    pc,          \* per agent: the suspension point its tool call is at
    call,        \* per agent: arguments and context of the running call
    local,       \* per agent: locals of the running handler
    verdict,     \* per agent: result of its last writeFilePreHook call
    held,        \* history: the snapshot each holder took and has not released
    ver,         \* history: number of rewrites of each file
    rivalWon,    \* history: a rival committed a write guarded by the same version
    overwritten, \* history: a rival's complete write flow replaced the content
    claudeMd,    \* .orchestration/CLAUDE.md: its text, or ENOENT
    results,     \* history: the direct calls made and what they returned
    task,        \* Task: the mistake counters the tools write
    sessions,    \* AgentSessionManager.sessions: agent id -> AgentSession, or Nil
    gitCacheElse,    \* git.ts cache entry of another workspace root, or Nil
    cleanupInterval, \* FileStateTracker.cleanupInterval: a timer handle, or Nil
    timers           \* the interval timers of the event loop that are active

vars == <<disk, snapshots, now, traceLog, intentMap, gitCache, pc, call, local, verdict,
          held, ver, rivalWon, overwritten, claudeMd, results, task, sessions,
          gitCacheElse, cleanupInterval, timers>>

storeVars == <<snapshots, held>>
flowVars == <<pc, call, local, verdict>>
ledgerVars == <<traceLog, intentMap, gitCache>>
historyVars == <<ver, rivalWon, overwritten>>
lessonVars == <<claudeMd, results>>
timerVars == <<cleanupInterval, timers>>
registryVars == <<task, sessions, gitCacheElse, timerVars>>

(***************************************************************************)
(* Snapshot Store (fileState.ts): the Map is keyed by the normalised path  *)
(***************************************************************************)
takeSnapshot(snaps, filePath, content, agentId, t) ==
    [snaps EXCEPT ![filePath] =
        [hash |-> sha256(content), agentId |-> agentId, timestamp |-> t]]

\* a variant that lets a file that cannot be read through
verifyReadLenient(snapshot, current) ==
    IF current = ENOENT THEN TRUE
    ELSE sha256(current) = snapshot.hash

\* the comparison verifySnapshot makes once readFile has answered
verifyRead(snapshot, current) ==
    IF current = ENOENT THEN FALSE
    ELSE sha256(current) = snapshot.hash

\* a variant that releases whoever holds the snapshot
releaseSnapshotAnyHolder(snaps, filePath, agentId) ==
    [snaps EXCEPT ![filePath] = Nil]

releaseSnapshot(snaps, filePath, agentId) ==
    IF snaps[filePath] # Nil /\ snaps[filePath].agentId = agentId
    THEN [snaps EXCEPT ![filePath] = Nil]
    ELSE snaps

releaseAllForAgent(snaps, agentId) ==
    [p \in Paths |->
        IF snaps[p] # Nil /\ snaps[p].agentId = agentId THEN Nil ELSE snaps[p]]

\* a variant that also removes a snapshot of exactly the maximum age
cleanupStaleSnapshotsInclusive(snaps, t, maxAgeMs) ==
    [p \in Paths |->
        IF snaps[p] # Nil /\ t - snaps[p].timestamp >= maxAgeMs
        THEN Nil ELSE snaps[p]]

cleanupStaleSnapshots(snaps, t, maxAgeMs) ==
    [p \in Paths |->
        IF snaps[p] # Nil /\ t - snaps[p].timestamp > maxAgeMs
        THEN Nil ELSE snaps[p]]

\* the handle setInterval returns
Timeout(n) == [timeout |-> n]

\* the state of the sweeper: the field cleanupInterval and the active timers
sweeperOf(interval, active) == [cleanupInterval |-> interval, timers |-> active]

\* clearInterval(handle)
clearInterval(active, handle) == {t \in active : t.handle # handle}

\* a variant that sets the new timer without clearing the one that runs
startCleanupIntervalKeepOld(st, handle, maxAgeMs) ==
    sweeperOf(handle, st.timers \cup {[handle |-> handle, maxAgeMs |-> maxAgeMs]})

\* startCleanupInterval(intervalMs, maxAgeMs); handle is what setInterval returns
startCleanupInterval(st, handle, maxAgeMs) ==
    sweeperOf(handle,
              (IF st.cleanupInterval # Nil
               THEN clearInterval(st.timers, st.cleanupInterval)
               ELSE st.timers)
              \cup {[handle |-> handle, maxAgeMs |-> maxAgeMs]})

stopCleanupInterval(st) ==
    IF st.cleanupInterval # Nil
    THEN sweeperOf(Nil, clearInterval(st.timers, st.cleanupInterval))
    ELSE st

\* what a store keyed by (path, holder) would hold: the history variable held
heldCapture(h, filePath, content, agentId, t) ==
    [h EXCEPT ![agentId][filePath] =
        [hash |-> sha256(content), timestamp |-> t, ver |-> ver[filePath]]]
heldRelease(h, filePath, agentId) == [h EXCEPT ![agentId][filePath] = Nil]
heldReleaseAll(h, agentId) == [h EXCEPT ![agentId] = [p \in Paths |-> Nil]]
heldCleanup(h, t, maxAgeMs) ==
    [a \in Agents |-> [p \in Paths |->
        IF h[a][p] # Nil /\ t - h[a][p].timestamp > maxAgeMs
        THEN Nil ELSE h[a][p]]]


(***************************************************************************)
(* Intent Catalog and Path Matcher                                         *)
(***************************************************************************)
\* intentId: string | null
Null == "null"
\* ownedScope?: string[] left out of the context
Undefined == << <<"undefined">> >>
\* agentId?: string left out of the context
NoAgent == "undefined"

\* .orchestration/active_intents.yaml
ActiveIntents ==
    [id \in {"INT-001", "INT-002"} |->
        IF id = "INT-001"
        THEN [name |-> "Source", owned_scope |-> << <<"src", "**">> >>]
        ELSE [name |-> "Unscoped", owned_scope |-> <<>>]]

IntentIds == {Null, "INT-001", "INT-002", "INT-404"}
Scopes == {Undefined, <<>>, << <<"src", "**">> >>, << <<"docs", "**">> >>}

\* getCachedIntent(id) ?? findIntentById(root, id): the catalog is read-only
findIntentById(intentId) ==
    IF intentId \in DOMAIN ActiveIntents THEN ActiveIntents[intentId] ELSE Nil

RECURSIVE globMatch(_, _)
globMatch(path, pattern) ==
    IF Len(pattern) = 0 THEN Len(path) = 0
    ELSE IF pattern[1] = "**"
         THEN \E k \in 0..Len(path) :
                 globMatch(SubSeq(path, k + 1, Len(path)), Tail(pattern))
    ELSE IF Len(path) = 0 THEN FALSE
    ELSE (pattern[1] = "*" \/ pattern[1] = path[1])
         /\ globMatch(Tail(path), Tail(pattern))

matchesAnyGlobPattern(filePath, patterns) ==
    \E i \in 1..Len(patterns) : globMatch(filePath, patterns[i])

(***************************************************************************)
(* Write Gatekeeper (preHooks/writeFile.ts)                                *)
(***************************************************************************)
\* a variant that trusts a cached scope without resolving the intent
intentAndScopeCachedFirst(c) ==
    IF c.intentId = Null THEN "NoActiveIntent"
    ELSE IF c.ownedScope # Undefined
    THEN IF Len(c.ownedScope) = 0 THEN "NoOwnedScope"
         ELSE IF ~matchesAnyGlobPattern(c.path, c.ownedScope)
         THEN "ScopeViolation" ELSE "pass"
    ELSE LET intent == findIntentById(c.intentId) IN
         IF intent = Nil THEN "IntentNotFound"
         ELSE IF Len(intent.owned_scope) = 0 THEN "NoOwnedScope"
         ELSE IF ~matchesAnyGlobPattern(c.path, intent.owned_scope)
         THEN "ScopeViolation" ELSE "pass"

\* steps 1-5 of writeFilePreHook, after the optimistic check
intentAndScope(c) ==
    IF c.intentId = Null THEN "NoActiveIntent"
    ELSE LET intent == findIntentById(c.intentId) IN
         IF intent = Nil THEN "IntentNotFound"
         ELSE LET scope == IF c.ownedScope # Undefined
                           THEN c.ownedScope ELSE intent.owned_scope IN
              IF Len(scope) = 0 THEN "NoOwnedScope"
              ELSE IF ~matchesAnyGlobPattern(c.path, scope) THEN "ScopeViolation"
              ELSE "pass"

\* a Task that has made no mistake
NoMistakes == [consecutiveMistakeCount |-> 0, toolErrors |-> 0,
               didToolFailInCurrentTurn |-> FALSE]

NoCall == [path |-> <<>>, intentId |-> Null, ownedScope |-> Undefined,
           agentId |-> NoAgent, content |-> ENOENT]
NoLocal == [snapshot |-> Nil, gheld |-> Nil, gover |-> FALSE, uuid |-> <<>>,
            probedAt |-> 0, revision |-> "", gitFailed |-> FALSE,
            map |-> [ids |-> {}, files |-> {}, names |-> {}], appended |-> FALSE,
            mapped |-> FALSE, gwon |-> FALSE]

\* the call returns: the verdict is handed to the runtime
gateReturn(a, c, l, v) ==
    /\ verdict' = [verdict EXCEPT ![a] = v]
    /\ call' = [call EXCEPT ![a] = c]
    /\ local' = [local EXCEPT ![a] = [l EXCEPT !.snapshot = Nil]]
    /\ pc' = [pc EXCEPT ![a] = IF v = "pass" THEN "gated" ELSE "blocked"]

\* writeFilePreHook up to its first suspension (readFile in verifySnapshot);
\* without agentId, or with no snapshot stored for the path, nothing is read
writeFilePreHook(a, filePath, intentId, ownedScope, agentId) ==
    /\ pc[a] = "idle"
    /\ LET c == [path |-> filePath, intentId |-> intentId,
                 ownedScope |-> ownedScope, agentId |-> agentId,
                 content |-> ENOENT]
           l == [NoLocal EXCEPT
                   !.gheld = IF held[a][filePath] = Nil THEN Nil
                             ELSE [hash |-> held[a][filePath].hash,
                                   ver |-> held[a][filePath].ver],
                   !.gover = overwritten[a][filePath]]
       IN IF agentId # NoAgent /\ snapshots[filePath] # Nil
          THEN /\ pc' = [pc EXCEPT ![a] = "verify"]
               /\ call' = [call EXCEPT ![a] = c]
               /\ local' = [local EXCEPT ![a] =
                               [l EXCEPT !.snapshot = snapshots[filePath]]]
               /\ verdict' = [verdict EXCEPT ![a] = "pending"]
          ELSE gateReturn(a, c, l, intentAndScope(c))
    /\ UNCHANGED <<disk, now, storeVars, ledgerVars, historyVars, lessonVars,
                   registryVars>>

\* a variant that refreshes the timestamp of a snapshot it found valid
writeFilePreHookResumeRefresh(a) ==
    /\ pc[a] = "verify"
    /\ LET isFileValid == verifyRead(local[a].snapshot, disk[call[a].path])
       IN /\ gateReturn(a, call[a], local[a],
                        IF ~isFileValid THEN "StaleFile"
                        ELSE intentAndScope(call[a]))
          /\ snapshots' =
                IF isFileValid /\ snapshots[call[a].path] # Nil
                THEN [snapshots EXCEPT ![call[a].path].timestamp = now]
                ELSE snapshots
    /\ UNCHANGED <<disk, now, held, ledgerVars, historyVars, lessonVars, registryVars>>

\* writeFilePreHook resumed with the content readFile delivered
writeFilePreHookResume(a) ==
    /\ pc[a] = "verify"
    /\ LET isFileValid == verifyRead(local[a].snapshot, disk[call[a].path])
       IN gateReturn(a, call[a], local[a],
                     IF ~isFileValid THEN "StaleFile"
                     ELSE intentAndScope(call[a]))
    /\ UNCHANGED <<disk, now, storeVars, ledgerVars, historyVars, lessonVars,
                   registryVars>>

\* the tool call of agent a is over: its frame is dropped
toolReturns(a) ==
    /\ pc' = [pc EXCEPT ![a] = "idle"]
    /\ call' = [call EXCEPT ![a] = NoCall]
    /\ local' = [local EXCEPT ![a] = NoLocal]
    /\ verdict' = [verdict EXCEPT ![a] = "none"]

\* a blocked write: the runtime reports the error to the assistant
runtimeBlocked(a) ==
    /\ pc[a] = "blocked"
    /\ toolReturns(a)
    /\ UNCHANGED <<disk, now, storeVars, ledgerVars, historyVars, lessonVars,
                   registryVars>>

(***************************************************************************)
(* The surrounding runtime commits the write and calls the recorder        *)
(***************************************************************************)
Revisions == {"abc123", "unknown"}

\* the ways `git rev-parse HEAD` fails: not a repository, binary missing,
\* permission denied, non-zero exit
GitFailures == {"not a git repository", "ENOENT", "EACCES", "exit 1"}
\* what execAsync settles with: stdout, or the error it rejects with
GitAnswers == {[stdout |-> "abc123"]} \cup {[error |-> e] : e \in GitFailures}
gitFailed(answer) == "error" \in DOMAIN answer
\* the try and the catch of getCurrentRevision
revParse(answer) == IF gitFailed(answer) THEN "unknown" ELSE answer.stdout

\* getCurrentRevision: cached && now - cached.timestamp < CACHE_TTL_MS
cacheHit == gitCache # Nil /\ now - gitCache.timestamp < CACHE_TTL_MS

\* the flow of agent a passed the optimistic check against a snapshot a took
guarded(a) == call[a].agentId # NoAgent /\ local[a].gheld # Nil

runtimeWrite(a, content) ==
    /\ pc[a] = "gated"
    /\ LET p == call[a].path IN
       /\ ver[p] < MaxVer
       /\ disk' = [disk EXCEPT ![p] = content]
       /\ ver' = [ver EXCEPT ![p] = @ + 1]
       /\ rivalWon' =
            [b \in Agents |-> [q \in Paths |->
                IF q = p /\ b # a /\ guarded(a) /\ held[b][q] # Nil
                   /\ held[b][q].ver = local[a].gheld.ver
                THEN TRUE ELSE rivalWon[b][q]]]
       /\ call' = [call EXCEPT ![a].content = content]
       \* writeFilePostHook is entered; intentId is set, so it goes on to
       \* getCurrentRevision, which answers from its cache or awaits git
       /\ local' = [local EXCEPT ![a].uuid = <<p, ver[p] + 1>>,
                                 ![a].gwon = guarded(a) /\ rivalWon[a][p],
                                 ![a].probedAt = now,
                                 ![a].revision =
                                    IF cacheHit THEN gitCache.revision ELSE ""]
       /\ pc' = [pc EXCEPT ![a] = IF cacheHit THEN "append" ELSE "revision"]
    /\ UNCHANGED <<now, storeVars, ledgerVars, verdict, overwritten,
                   lessonVars, registryVars>>

\* the write itself fails: the recorder is not called
runtimeWriteFails(a) ==
    /\ pc[a] = "gated"
    /\ toolReturns(a)
    /\ UNCHANGED <<disk, now, storeVars, ledgerVars, historyVars, lessonVars,
                   registryVars>>

\* String.prototype.split on a separator, over a text kept as a sequence
RECURSIVE split(_, _)
split(s, sep) ==
    IF \A i \in 1..Len(s) : s[i] # sep THEN <<s>>
    ELSE LET k == CHOOSE i \in 1..Len(s) :
                     s[i] = sep /\ \A j \in 1..(i - 1) : s[j] # sep
         IN <<SubSeq(s, 1, k - 1)>> \o split(SubSeq(s, k + 1, Len(s)), sep)

\* Array.prototype.join
RECURSIVE join(_, _)
join(parts, sep) ==
    IF Len(parts) = 0 THEN <<>>
    ELSE IF Len(parts) = 1 THEN parts[1]
    ELSE parts[1] \o <<sep>> \o join(Tail(parts), sep)

Max(x, y) == IF x >= y THEN x ELSE y
Min(x, y) == IF x <= y THEN x ELSE y

Whitespace == {" ", "\n"}

\* String.prototype.trim
RECURSIVE trim(_)
trim(s) ==
    IF Len(s) = 0 THEN s
    ELSE IF s[1] \in Whitespace THEN trim(Tail(s))
    ELSE IF s[Len(s)] \in Whitespace THEN trim(SubSeq(s, 1, Len(s) - 1))
    ELSE s

(***************************************************************************)
(* Mutation classifier (mutationClassifier.ts): the contents it is given   *)
(* are kept as sequences of tokens, each token a run of characters that    *)
(* the regular expressions of the classifier take or leave as a whole      *)
(***************************************************************************)
\* String.prototype.length
RECURSIVE length(_)
length(s) == IF Len(s) = 0 THEN 0 ELSE Len(s[1]) + length(Tail(s))

\* the tokens each of the three expressions of BUG_FIX_PATTERNS matches
\* (unanchored and case-insensitive: "fix" matches inside "Prefix")
BUG_FIX_PATTERNS ==
    << {" fix", " Prefix"}, {"const x = null;"}, {"assert(x);"} >>

\* first index from i on holding one of the tokens, Len(s) + 1 when none
indexFrom(s, i, toks) ==
    IF \E k \in i..Len(s) : s[k] \in toks
    THEN CHOOSE k \in i..Len(s) :
            s[k] \in toks /\ \A j \in i..(k - 1) : s[j] \notin toks
    ELSE Len(s) + 1

\* .replace(/\/\*[\s\S]*?\*\//g, "")
RECURSIVE stripBlockComments(_)
stripBlockComments(s) ==
    LET open == indexFrom(s, 1, {"/*"})
        close == indexFrom(s, open + 1, {"*/"})
    IN IF close > Len(s) THEN s
       ELSE SubSeq(s, 1, open - 1) \o
            stripBlockComments(SubSeq(s, close + 1, Len(s)))

\* .replace(/\/\/.*$/gm, "")
RECURSIVE stripLineComments(_)
stripLineComments(s) ==
    LET open == indexFrom(s, 1, {"//"})
        eol == indexFrom(s, open, {"\n"})
    IN IF open > Len(s) THEN s
       ELSE SubSeq(s, 1, open - 1) \o
            stripLineComments(SubSeq(s, eol, Len(s)))

\* .replace(/^\s*\*.*$/gm, ""): from a line start, white space (line breaks
\* included) and then an asterisk take the rest of the asterisk's line
RECURSIVE stripStarLines(_)
stripStarLines(s) ==
    LET ink(i) == CHOOSE k \in i..(Len(s) + 1) :
                     /\ k = Len(s) + 1 \/ s[k] \notin Whitespace
                     /\ \A j \in i..(k - 1) : s[j] \in Whitespace
        matches(i) == /\ i = 1 \/ s[i - 1] = "\n"
                      /\ ink(i) <= Len(s)
                      /\ s[ink(i)] \in {"*", "*/"}
    IN IF \A i \in 1..Len(s) : ~matches(i) THEN s
       ELSE LET i == CHOOSE i \in 1..Len(s) :
                        matches(i) /\ \A j \in 1..(i - 1) : ~matches(j)
                eol == indexFrom(s, ink(i), {"\n"})
            IN IF eol > Len(s) THEN SubSeq(s, 1, i - 1)
               ELSE SubSeq(s, 1, i - 1) \o <<"\n">> \o
                    stripStarLines(SubSeq(s, eol + 1, Len(s)))

removeComments(code) ==
    trim(stripStarLines(stripLineComments(stripBlockComments(code))))

isDocumentationChange(oldContent, newContent) ==
    /\ removeComments(oldContent) = removeComments(newContent)
    /\ oldContent # newContent

isBugFix(diff) ==
    \E p \in 1..Len(BUG_FIX_PATTERNS) :
       \E i \in 1..Len(diff) : diff[i] \in BUG_FIX_PATTERNS[p]

\* the lines of one content the other does not have
linesNotIn(lines, others) ==
    SelectSeq(lines, LAMBDA l : \A i \in 1..Len(others) : others[i] # l)

\* a variant that looks for the bug-fix patterns before the comment-only test
classifyMutationPatternsFirst(oldContent, newContent) ==
    LET lines == split(newContent, "\n")
        oldLines == split(oldContent, "\n")
        diff == <<"+">> \o join(linesNotIn(lines, oldLines), "\n") \o
                <<"\n", "-">> \o join(linesNotIn(oldLines, lines), "\n")
        oldLen == IF length(oldContent) = 0 THEN 1 ELSE length(oldContent)
        change == length(newContent) - length(oldContent)
    IN IF oldContent = newContent THEN "DOCUMENTATION"
       ELSE IF isBugFix(diff) THEN "BUG_FIX"
       ELSE IF isDocumentationChange(oldContent, newContent) THEN "DOCUMENTATION"
       ELSE IF 5 * (IF change < 0 THEN 0 - change ELSE change) > oldLen
            THEN "INTENT_EVOLUTION"
       ELSE "AST_REFACTOR"

\* sizeChange > 0.2 is taken over the integers: 5 * |new - old| > oldLen
classifyMutation(oldContent, newContent) ==
    LET lines == split(newContent, "\n")
        oldLines == split(oldContent, "\n")
        diff == <<"+">> \o join(linesNotIn(lines, oldLines), "\n") \o
                <<"\n", "-">> \o join(linesNotIn(oldLines, lines), "\n")
        oldLen == IF length(oldContent) = 0 THEN 1 ELSE length(oldContent)
        change == length(newContent) - length(oldContent)
    IN IF oldContent = newContent THEN "DOCUMENTATION"
       ELSE IF isDocumentationChange(oldContent, newContent) THEN "DOCUMENTATION"
       ELSE IF isBugFix(diff) THEN "BUG_FIX"
       ELSE IF 5 * (IF change < 0 THEN 0 - change ELSE change) > oldLen
            THEN "INTENT_EVOLUTION"
       ELSE "AST_REFACTOR"

\* Math.max(1, content.split("\n").length)
lineCount(content) == Max(1, Len(split(content, "\n")))

\* computeContentHash(content, startLine, endLine)
computeContentHash(content, startLine, endLine) ==
    LET lines == split(normalizeLineEndings(content), "\n")
        start == Max(0, startLine - 1)
        end == Min(Len(lines), endLine)
    IN IF start >= end THEN sha256(<<>>)
       ELSE sha256(join(SubSeq(lines, start + 1, end), "\n"))

(***************************************************************************)
(* Trace entries (models/trace.ts) and the ledger (traceStorage.ts)        *)
(***************************************************************************)
MUTATION_CLASSES == {"AST_REFACTOR", "INTENT_EVOLUTION", "BUG_FIX", "DOCUMENTATION"}
RELATED_TYPES == {"specification", "requirement", "issue", "task"}

\* JavaScript numbers: a finite number, or NaN; JSON has null for the latter
Num(n) == [num |-> n]
NaN == [nan |-> TRUE]
JsonNull == [null |-> TRUE]
\* typeof v === "number"
isNumber(v) == "num" \in DOMAIN v \/ v = NaN

\* the fields of an entry are present and of their type unless stated: id and
\* mutation_class may be absent, a line number may be NaN (or null once read)
isValidTraceRange(r) == isNumber(r.start_line) /\ isNumber(r.end_line)

isValidTraceContributor(c) == c.entity_type \in {"AI", "HUMAN"}

isValidTraceRelated(r) == r.type \in RELATED_TYPES

isValidTraceConversation(c) ==
    /\ isValidTraceContributor(c.contributor)
    /\ \A i \in 1..Len(c.ranges) : isValidTraceRange(c.ranges[i])
    /\ \A i \in 1..Len(c.related) : isValidTraceRelated(c.related[i])

isValidTraceFile(f) ==
    \A i \in 1..Len(f.conversations) : isValidTraceConversation(f.conversations[i])

isValidTraceEntry(entry) ==
    /\ "id" \in DOMAIN entry
    /\ \A i \in 1..Len(entry.files) : isValidTraceFile(entry.files[i])
    /\ "mutation_class" \in DOMAIN entry
          => entry.mutation_class \in MUTATION_CLASSES

\* JSON.parse(JSON.stringify(v)) of a number: NaN is written as null
jsonNumber(v) == IF v = NaN THEN JsonNull ELSE v

jsonRange(r) ==
    [r EXCEPT !.start_line = jsonNumber(@), !.end_line = jsonNumber(@)]

jsonConversation(c) ==
    [c EXCEPT !.ranges = [i \in 1..Len(c.ranges) |-> jsonRange(c.ranges[i])]]

jsonFile(f) ==
    [f EXCEPT !.conversations =
        [i \in 1..Len(f.conversations) |-> jsonConversation(f.conversations[i])]]

\* the value a reader gets back from the JSON text of an entry (absent keys
\* stay absent)
jsonValue(entry) ==
    [entry EXCEPT !.files = [i \in 1..Len(entry.files) |-> jsonFile(entry.files[i])]]

\* the ledger file is a sequence of tokens: the JSON text of an entry, or "\n"
NL == [nl |-> TRUE]
stringify(entry) == [json |-> jsonValue(entry)]

\* a variant that writes the file anew (fs.writeFile) with the one line
appendFileOverwrite(text, entry) == <<stringify(entry), NL>>

\* fs.appendFile(tracePath, JSON.stringify(entry) + "\n"): one write
appendFile(text, entry) == text \o <<stringify(entry), NL>>

\* JSON.parse of the lines of the file that are not blank, the lines that do
\* not parse and the entries that are not valid skipped
readTraceLog(text) ==
    LET lines == SelectSeq(split(text, NL), LAMBDA l : Len(l) > 0)
        parses(l) == Len(l) = 1 /\ "json" \in DOMAIN l[1]
        parsed == SelectSeq(lines, parses)
        entries == [i \in 1..Len(parsed) |-> parsed[i][1].json]
    IN SelectSeq(entries, isValidTraceEntry)

(***************************************************************************)
(* Intent map (intentMap.ts): intent_map.md is kept as its lines           *)
(***************************************************************************)
Title == [t |-> "# Intent Map"]
Blurb == [t |-> "This file maps business intents to physical files in the codebase."]
Blank == [t |-> ""]
NoFiles == [t |-> "*No files mapped yet*"]
\* "## <id>: <name>"; name "" is a header without a name
Header(id, name) == [h |-> id, name |-> name]
\* "- <path>"
Bullet(path) == [b |-> path]
\* "- <path>" written with backslashes; normalizePath turns them into "/"
BackslashBullet(path) == [b |-> path, sep |-> "\\"]

\* Array.prototype.sort of the ids and of the paths the model has
IdOrder == <<"INT-001", "INT-002", "INT-404">>
PathOrder == <<<<"src", "a.ts">>, <<"src", "b.ts">>>>

\* a parsed map: the ids that have a section, the (id, path) pairs listed,
\* the (id, name) pairs of the headers
NoMap == [ids |-> {}, files |-> {}, names |-> {}]

RECURSIVE parseLines(_, _, _)
parseLines(lines, currentIntent, m) ==
    IF Len(lines) = 0 THEN m
    ELSE LET line == lines[1] IN
         IF "h" \in DOMAIN line
         THEN parseLines(Tail(lines), line.h,
                         [m EXCEPT !.ids = @ \cup {line.h}])
         ELSE IF currentIntent # Null /\ "b" \in DOMAIN line
         THEN parseLines(Tail(lines), currentIntent,
                         [m EXCEPT !.files = @ \cup {<<currentIntent, line.b>>}])
         ELSE parseLines(Tail(lines), currentIntent, m)

parseIntentMap(content) == parseLines(content, Null, NoMap)

\* a later header of the same id replaces the name (Map.set)
RECURSIVE extractIntentNames(_)
extractIntentNames(content) ==
    IF Len(content) = 0 THEN {}
    ELSE LET line == content[Len(content)]
             before == extractIntentNames(SubSeq(content, 1, Len(content) - 1))
         IN IF "h" \in DOMAIN line /\ line.name # ""
            THEN {n \in before : n[1] # line.h} \cup {<<line.h, line.name>>}
            ELSE before

intentNameOf(names, intentId) ==
    IF \E n \in names : n[1] = intentId
    THEN (CHOOSE n \in names : n[1] = intentId)[2]
    ELSE intentId

RECURSIVE buildSections(_, _)
buildSections(m, ids) ==
    IF Len(ids) = 0 THEN <<>>
    ELSE LET intentId == ids[1]
             files == SelectSeq(PathOrder, LAMBDA f : <<intentId, f>> \in m.files)
         IN <<Header(intentId, intentNameOf(m.names, intentId)), Blank>>
            \o (IF Len(files) = 0 THEN <<NoFiles>>
                ELSE [i \in 1..Len(files) |-> Bullet(files[i])])
            \o <<Blank>>
            \o buildSections(m, Tail(ids))

\* a variant that writes the sections in the opposite order
buildIntentMapContentDescending(m) ==
    <<Title, Blank, Blurb, Blank>>
    \o buildSections(m, SelectSeq(<<"INT-404", "INT-002", "INT-001">>,
                                  LAMBDA i : i \in m.ids))

buildIntentMapContent(m) ==
    <<Title, Blank, Blurb, Blank>>
    \o buildSections(m, SelectSeq(IdOrder, LAMBDA i : i \in m.ids))

\* what updateIntentMap and removeFromIntentMap read: the parsed file, or an
\* empty map when the file does not exist
loadIntentMap(content) ==
    IF content = ENOENT THEN NoMap
    ELSE [parseIntentMap(content) EXCEPT !.names = extractIntentNames(content)]

\* the optional argument intentName: Undefined, or a string
Name(s) == <<"string", s>>

\* the map updateIntentMap writes back
withFile(m, intentId, filePath, intentName) ==
    [ids |-> m.ids \cup {intentId},
     files |-> m.files \cup {<<intentId, filePath>>},
     names |-> IF intentName = Undefined THEN m.names
               ELSE {n \in m.names : n[1] # intentId}
                    \cup {<<intentId, intentName[2]>>}]

\* a variant that keeps the section of an intent whose last path is removed
withoutFileKeepSection(m, intentId, filePath) ==
    IF intentId \notin m.ids THEN m
    ELSE [m EXCEPT !.files = m.files \ {<<intentId, filePath>>}]

\* the map removeFromIntentMap writes back
withoutFile(m, intentId, filePath) ==
    IF intentId \notin m.ids THEN m
    ELSE LET files == m.files \ {<<intentId, filePath>>} IN
         [m EXCEPT !.files = files,
                   !.ids = IF \E f \in files : f[1] = intentId
                           THEN @ ELSE @ \ {intentId}]

(***************************************************************************)
(* Post-Write Recorder (postHooks/writeFile.ts)                            *)
(***************************************************************************)
\* a string argument: the characters of s as one value
Str(s) == <<"string", s>>

\* explicitClass && Object.values(MutationClass).includes(explicitClass)
isValidMutationClass(explicitClass) ==
    /\ explicitClass # Undefined
    /\ explicitClass[2] # ""
    /\ explicitClass[2] \in MUTATION_CLASSES

getMutationClass(explicitClass, oldContent, newContent) ==
    IF isValidMutationClass(explicitClass) THEN explicitClass[2]
    ELSE classifyMutation(oldContent, newContent)

\* a variant that prefers the classification to a valid explicit class
mutationClassOfInferFirst(c) ==
    LET explicitClass == IF "mutation_class" \in DOMAIN c
                         THEN c.mutation_class ELSE Undefined
    IN IF "oldContent" \in DOMAIN c
       THEN classifyMutation(c.oldContent, c.content)
       ELSE IF isValidMutationClass(explicitClass) THEN explicitClass[2]
       ELSE "AST_REFACTOR"

\* the class writeFilePostHook resolves: args.mutation_class and
\* context.oldContent are fields of the call only when they were passed
mutationClassOf(c) ==
    LET explicitClass == IF "mutation_class" \in DOMAIN c
                         THEN c.mutation_class ELSE Undefined
    IN IF isValidMutationClass(explicitClass) THEN explicitClass[2]
       ELSE IF "oldContent" \in DOMAIN c
            THEN getMutationClass(explicitClass, c.oldContent, c.content)
       ELSE "AST_REFACTOR"

\* the entry writeFilePostHook builds; its caller passes no sessionId or
\* modelIdentifier
traceEntryOf(c, l) ==
    LET content == c.content
        count == lineCount(content)
    IN [id |-> l.uuid,
        timestamp |-> l.probedAt,
        vcs |-> [revision_id |-> l.revision],
        files |-> <<
           [relative_path |-> c.path,
            conversations |-> <<
               [url |-> <<"session://", l.probedAt>>,
                contributor |-> [entity_type |-> "AI",
                                 model_identifier |-> "unknown"],
                ranges |-> << [start_line |-> Num(1),
                               end_line |-> Num(count),
                               content_hash |->
                                  <<"sha256:">> \o
                                  computeContentHash(content, 1, count)] >>,
                related |-> << [type |-> "specification",
                                value |-> c.intentId] >>] >>] >>,
        mutation_class |-> mutationClassOf(c)]

traceEntry(a) == traceEntryOf(call[a], local[a])

\* a variant without the catch: a failure of git is thrown on to the caller
postHookRevisionThrows(a, answer) ==
    /\ pc[a] = "revision"
    /\ IF gitFailed(answer)
       THEN /\ pc' = [pc EXCEPT ![a] = "idle"]
            /\ call' = [call EXCEPT ![a] = NoCall]
            /\ local' = [local EXCEPT ![a] = NoLocal]
            /\ verdict' = [verdict EXCEPT ![a] = "threw"]
            /\ UNCHANGED gitCache
       ELSE /\ gitCache' = [revision |-> revParse(answer),
                            timestamp |-> local[a].probedAt]
            /\ local' = [local EXCEPT ![a].revision = revParse(answer)]
            /\ pc' = [pc EXCEPT ![a] = "append"]
            /\ UNCHANGED <<call, verdict>>
    /\ UNCHANGED <<disk, now, storeVars, traceLog, intentMap,
                   historyVars, lessonVars, registryVars>>

\* git rev-parse HEAD has settled (with a revision, or with an error, which
\* gives "unknown"): the cache is set, the entry is built and appendToTraceLog
\* is awaited
postHookRevision(a, answer) ==
    /\ pc[a] = "revision"
    /\ gitCache' = [revision |-> revParse(answer), timestamp |-> local[a].probedAt]
    /\ local' = [local EXCEPT ![a].revision = revParse(answer),
                              ![a].gitFailed = gitFailed(answer)]
    /\ pc' = [pc EXCEPT ![a] = "append"]
    /\ UNCHANGED <<disk, now, storeVars, traceLog, intentMap, call, verdict,
                   historyVars, lessonVars, registryVars>>

\* a variant that logs and throws the error on to the caller of the hook
postHookRethrow(a) ==
    /\ pc' = [pc EXCEPT ![a] = "idle"]
    /\ call' = [call EXCEPT ![a] = NoCall]
    /\ local' = [local EXCEPT ![a] = NoLocal]
    /\ verdict' = [verdict EXCEPT ![a] = "threw"]

\* the catch of writeFilePostHook: log and return
postHookCatch(a) == toolReturns(a)

\* a variant that keeps one row per file and intent
postHookAppendDedup(a, ok) ==
    /\ pc[a] = "append"
    /\ IF ok
       THEN /\ traceLog' =
                 IF \E i \in 1..Len(traceLog) :
                       /\ "json" \in DOMAIN traceLog[i]
                       /\ traceLog[i].json.files = jsonValue(traceEntry(a)).files
                 THEN traceLog
                 ELSE appendFile(traceLog, traceEntry(a))
            /\ local' = [local EXCEPT ![a].appended = TRUE]
            /\ pc' = [pc EXCEPT ![a] = "mapRead"]
            /\ UNCHANGED <<call, verdict>>
       ELSE /\ postHookCatch(a)
            /\ UNCHANGED traceLog
    /\ UNCHANGED <<disk, now, storeVars, intentMap, gitCache, historyVars, lessonVars,
                   registryVars>>

\* a variant that logs a failed append and carries on to the intent map
postHookAppendSwallow(a, ok) ==
    /\ pc[a] = "append"
    /\ traceLog' = IF ok THEN appendFile(traceLog, traceEntry(a)) ELSE traceLog
    /\ local' = [local EXCEPT ![a].appended = ok]
    /\ pc' = [pc EXCEPT ![a] = "mapRead"]
    /\ UNCHANGED <<call, verdict>>
    /\ UNCHANGED <<disk, now, storeVars, intentMap, gitCache, historyVars,
                   lessonVars, registryVars>>

\* a variant that writes the JSON text and the line end in two writes
postHookAppendTwoWrites(a, ok) ==
    /\ pc[a] = "append"
    /\ IF ok /\ isValidTraceEntry(traceEntry(a))
       THEN IF ~local[a].appended
            THEN /\ traceLog' = traceLog \o <<stringify(traceEntry(a))>>
                 /\ local' = [local EXCEPT ![a].appended = TRUE]
                 /\ UNCHANGED <<pc, call, verdict>>
            ELSE /\ traceLog' = traceLog \o <<NL>>
                 /\ pc' = [pc EXCEPT ![a] = "mapRead"]
                 /\ UNCHANGED <<call, local, verdict>>
       ELSE /\ postHookCatch(a)
            /\ UNCHANGED traceLog
    /\ UNCHANGED <<disk, now, storeVars, intentMap, gitCache, historyVars,
                   lessonVars, registryVars>>

\* appendToTraceLog: the entry is validated, then fs.appendFile writes one
\* line or fails
postHookAppend(a, ok) ==
    /\ pc[a] = "append"
    /\ IF ok /\ isValidTraceEntry(traceEntry(a))
       THEN /\ traceLog' = appendFile(traceLog, traceEntry(a))
            /\ local' = [local EXCEPT ![a].appended = TRUE]
            /\ pc' = [pc EXCEPT ![a] = "mapRead"]
            /\ UNCHANGED <<call, verdict>>
       ELSE /\ postHookCatch(a)
            /\ UNCHANGED traceLog
    /\ UNCHANGED <<disk, now, storeVars, intentMap, gitCache, historyVars,
                   lessonVars, registryVars>>

\* updateIntentMap, first half: readFile of intent_map.md and parseIntentMap
postHookMapRead(a, ok) ==
    /\ pc[a] = "mapRead"
    /\ IF ok
       THEN /\ local' = [local EXCEPT ![a].map = loadIntentMap(intentMap)]
            /\ pc' = [pc EXCEPT ![a] = "mapWrite"]
            /\ UNCHANGED <<call, verdict>>
       ELSE postHookCatch(a)
    /\ UNCHANGED <<disk, now, storeVars, ledgerVars, historyVars, lessonVars,
                   registryVars>>

\* updateIntentMap, second half: add the path and writeFile the rebuilt map
postHookMapWrite(a, ok) ==
    /\ pc[a] = "mapWrite"
    /\ IF ok
       THEN /\ intentMap' =
                 buildIntentMapContent(
                    withFile(local[a].map, call[a].intentId, call[a].path, Undefined))
            /\ local' = [local EXCEPT ![a].mapped = TRUE]
            /\ pc' = [pc EXCEPT ![a] = "release"]
            /\ UNCHANGED <<call, verdict>>
       ELSE /\ postHookCatch(a)
            /\ UNCHANGED intentMap
    /\ UNCHANGED <<disk, now, storeVars, traceLog, gitCache, historyVars,
                   lessonVars, registryVars>>

\* the context of a writeFilePostHook call and the locals it starts with
postCall(filePath, content, intentId, agentId) ==
    [path |-> filePath, intentId |-> intentId, ownedScope |-> Undefined,
     agentId |-> agentId, content |-> content]
postLocal(uuid) ==
    [NoLocal EXCEPT !.uuid = uuid, !.probedAt = now,
                    !.revision = IF cacheHit THEN gitCache.revision ELSE ""]

\* a variant without the early return for a missing intent id
writeFilePostHookCallAlways(a, filePath, content, intentId, agentId) ==
    /\ pc[a] = "idle"
    /\ Len(results) < MaxCalls
    /\ results' = Append(results, [op |-> "writeFilePostHook",
                                   intentId |-> intentId, path |-> filePath])
    /\ call' = [call EXCEPT ![a] = postCall(filePath, content, intentId, agentId)]
    /\ local' = [local EXCEPT ![a] = postLocal(<<"uuid", Len(results) + 1>>)]
    /\ pc' = [pc EXCEPT ![a] = IF cacheHit THEN "append" ELSE "revision"]
    /\ UNCHANGED <<disk, now, storeVars, ledgerVars, verdict, historyVars, claudeMd,
                   registryVars>>

\* writeFilePostHook called by a caller that has written the file itself:
\* without intentId it returns at once, otherwise it runs up to its first
\* suspension (getCurrentRevision, or appendToTraceLog on a cache hit)
writeFilePostHookCall(a, filePath, content, intentId, agentId) ==
    /\ pc[a] = "idle"
    /\ Len(results) < MaxCalls
    /\ results' = Append(results, [op |-> "writeFilePostHook",
                                   intentId |-> intentId, path |-> filePath])
    /\ IF intentId = Null
       THEN UNCHANGED flowVars
       ELSE /\ call' = [call EXCEPT ![a] =
                           postCall(filePath, content, intentId, agentId)]
            /\ local' = [local EXCEPT ![a] = postLocal(<<"uuid", Len(results) + 1>>)]
            /\ pc' = [pc EXCEPT ![a] = IF cacheHit THEN "append" ELSE "revision"]
            /\ UNCHANGED verdict
    /\ UNCHANGED <<disk, now, storeVars, ledgerVars, historyVars, claudeMd, registryVars>>

\* a rival's flow, begun from a snapshot of the same file version, has
\* replaced the content holder b has a snapshot of
rivalOverwrote(a, b, p) ==
    /\ b # a
    /\ local[a].gheld # Nil
    /\ held[b][p] # Nil
    /\ held[b][p].ver = local[a].gheld.ver
    /\ sha256(call[a].content) # held[b][p].hash

\* if (agentId && workspaceRoot) releaseSnapshot(...); then the hook returns
postHookRelease(a) ==
    /\ pc[a] = "release"
    /\ LET p == call[a].path IN
       IF call[a].agentId # NoAgent
       THEN /\ snapshots' = releaseSnapshot(snapshots, p, a)
            /\ held' = heldRelease(held, p, a)
            /\ overwritten' =
                 [b \in Agents |-> [q \in Paths |->
                     IF q # p THEN overwritten[b][q]
                     ELSE IF b = a THEN FALSE
                     ELSE rivalOverwrote(a, b, p) \/ overwritten[b][q]]]
            /\ rivalWon' = [rivalWon EXCEPT ![a][p] = FALSE]
       ELSE UNCHANGED <<snapshots, held, overwritten, rivalWon>>
    /\ toolReturns(a)
    /\ UNCHANGED <<disk, now, ledgerVars, ver, lessonVars, registryVars>>


(***************************************************************************)
(* Session registry (agentSession.ts)                                      *)
(***************************************************************************)
\* 30 * 60 * 1000 ms
SESSION_TIMEOUT == 1800000

\* a variant of registerAgent that keeps the activity time of the session it
\* replaces
registerAgentKeepActivity(ss, agentId, intentId, t) ==
    [ss EXCEPT ![agentId] =
        [agentId |-> agentId, createdAt |-> t,
         lastActivity |-> IF ss[agentId] = Nil THEN t ELSE ss[agentId].lastActivity,
         intentId |-> intentId, files |-> {}]]

\* sessions.set: a registered id gets a new session
registerAgent(ss, agentId, intentId, t) ==
    [ss EXCEPT ![agentId] =
        [agentId |-> agentId, createdAt |-> t, lastActivity |-> t,
         intentId |-> intentId, files |-> {}]]

unregisterAgent(ss, agentId) == [ss EXCEPT ![agentId] = Nil]

updateActivity(ss, agentId, t) ==
    IF ss[agentId] = Nil THEN ss
    ELSE [ss EXCEPT ![agentId].lastActivity = t]

addFile(ss, agentId, filePath, t) ==
    IF ss[agentId] = Nil THEN ss
    ELSE updateActivity([ss EXCEPT ![agentId].files = @ \cup {filePath}],
                        agentId, t)

removeFile(ss, agentId, filePath) ==
    IF ss[agentId] = Nil THEN ss
    ELSE [ss EXCEPT ![agentId].files = @ \ {filePath}]

cleanupStaleSessions(ss, t, maxAgeMs) ==
    [a \in Agents |->
        IF ss[a] # Nil /\ t - ss[a].lastActivity > maxAgeMs THEN Nil ELSE ss[a]]

(***************************************************************************)
(* Read pre-hook, explicit releases, the sweeper, the world outside        *)
(***************************************************************************)
\* fileReadPreHook: updateActivity, then takeSnapshotFromDisk and addFile; a
\* missing file is skipped
fileReadPreHook(a, filePath) ==
    /\ pc[a] = "idle"
    /\ IF disk[filePath] = ENOENT
       THEN UNCHANGED <<snapshots, held, overwritten, rivalWon>>
       ELSE /\ snapshots' = takeSnapshot(snapshots, filePath, disk[filePath], a, now)
            /\ held' = heldCapture(held, filePath, disk[filePath], a, now)
            /\ overwritten' = [overwritten EXCEPT ![a][filePath] = FALSE]
            /\ rivalWon' = [rivalWon EXCEPT ![a][filePath] = FALSE]
    /\ sessions' = IF disk[filePath] = ENOENT
                   THEN updateActivity(sessions, a, now)
                   ELSE addFile(updateActivity(sessions, a, now), a, filePath, now)
    /\ UNCHANGED <<disk, now, ledgerVars, flowVars, ver, lessonVars, task,
                   gitCacheElse,
                   timerVars>>

\* an agent that is done with a file
releaseSnapshotCall(a, filePath) ==
    /\ pc[a] = "idle"
    /\ snapshots' = releaseSnapshot(snapshots, filePath, a)
    /\ held' = heldRelease(held, filePath, a)
    /\ overwritten' = [overwritten EXCEPT ![a][filePath] = FALSE]
    /\ rivalWon' = [rivalWon EXCEPT ![a][filePath] = FALSE]
    /\ UNCHANGED <<disk, now, ledgerVars, flowVars, ver, lessonVars, registryVars>>

\* an agent that disconnects
releaseAllForAgentCall(a) ==
    /\ pc[a] = "idle"
    /\ snapshots' = releaseAllForAgent(snapshots, a)
    /\ held' = heldReleaseAll(held, a)
    /\ overwritten' = [overwritten EXCEPT ![a] = [p \in Paths |-> FALSE]]
    /\ rivalWon' = [rivalWon EXCEPT ![a] = [p \in Paths |-> FALSE]]
    /\ UNCHANGED <<disk, now, ledgerVars, flowVars, ver, lessonVars, registryVars>>

\* the setInterval callback of startCleanupInterval
cleanupTimer ==
    /\ \E t \in timers :
          /\ snapshots' = cleanupStaleSnapshots(snapshots, now, t.maxAgeMs)
          /\ held' = heldCleanup(held, now, t.maxAgeMs)
    /\ UNCHANGED <<disk, now, ledgerVars, flowVars, historyVars, lessonVars,
                   registryVars>>

tick ==
    /\ \E t \in Times : t > now /\ now' = t
    /\ UNCHANGED <<disk, storeVars, ledgerVars, flowVars, historyVars,
                   lessonVars, registryVars>>

\* a writer outside the middleware rewrites or removes a file
externalWrite(filePath, content) ==
    /\ ver[filePath] < MaxVer
    /\ disk' = [disk EXCEPT ![filePath] = content]
    /\ ver' = [ver EXCEPT ![filePath] = @ + 1]
    /\ UNCHANGED <<now, storeVars, ledgerVars, flowVars, rivalWon,
                   overwritten, lessonVars, registryVars>>

(***************************************************************************)
(* Specification                                                           *)
(***************************************************************************)
Init ==
    /\ disk \in {d \in [Paths -> {ContentX, ENOENT}] :
                   \A p \in Paths \ FlowPaths : d[p] = ENOENT}
    /\ snapshots = [p \in Paths |-> Nil]
    /\ now = 0
    /\ traceLog = <<>>
    /\ intentMap = ENOENT
    /\ gitCache = Nil
    /\ pc = [a \in Agents |-> "idle"]
    /\ call = [a \in Agents |-> NoCall]
    /\ local = [a \in Agents |-> NoLocal]
    /\ verdict = [a \in Agents |-> "none"]
    /\ held = [a \in Agents |-> [p \in Paths |-> Nil]]
    /\ ver = [p \in Paths |-> 0]
    /\ rivalWon = [a \in Agents |-> [p \in Paths |-> FALSE]]
    /\ overwritten = [a \in Agents |-> [p \in Paths |-> FALSE]]
    /\ claudeMd = ENOENT
    /\ results = <<>>
    /\ task = NoMistakes
    /\ sessions = [a \in Agents |-> Nil]
    /\ gitCacheElse = Nil
    /\ cleanupInterval = Timeout(1)
    /\ timers = {[handle |-> Timeout(1), maxAgeMs |-> DEFAULT_MAX_AGE]}

\* one write flow per agent at a time, under the intent of the session
FlowIntentIds == {Null, "INT-001"}
FlowScopes == {Undefined}
FlowContents == {ContentX, ContentY}
\* HEAD does not move and git answers
FlowGitAnswers == {[stdout |-> "abc123"]}

Next ==
    \/ \E a \in Agents, p \in FlowPaths : fileReadPreHook(a, p)
    \/ \E a \in Agents, p \in FlowPaths, i \in FlowIntentIds, s \in FlowScopes :
          \E g \in {a, NoAgent} : writeFilePreHook(a, p, i, s, g)
    \/ \E a \in Agents : writeFilePreHookResume(a)
    \/ \E a \in Agents : runtimeBlocked(a)
    \/ \E a \in Agents, c \in FlowContents : runtimeWrite(a, c)
    \/ \E a \in Agents : runtimeWriteFails(a)
    \/ \E a \in Agents, r \in FlowGitAnswers : postHookRevision(a, r)
    \/ \E a \in Agents, ok \in BOOLEAN : postHookAppend(a, ok)
    \/ \E a \in Agents, ok \in BOOLEAN : postHookMapRead(a, ok)
    \/ \E a \in Agents, ok \in BOOLEAN : postHookMapWrite(a, ok)
    \/ \E a \in Agents : postHookRelease(a)
    \/ \E a \in Agents, p \in FlowPaths : releaseSnapshotCall(a, p)
    \/ \E a \in Agents : releaseAllForAgentCall(a)
    \/ \E p \in FlowPaths, c \in Contents \cup {ENOENT} : externalWrite(p, c)

Spec == Init /\ [][Next]_vars

\* the gatekeeper alone, over every context, with the clock and the sweeper;
\* one gatekeeper call is in flight at a time, everything else interleaves
NextGate ==
    \/ \E a \in Agents, p \in FlowPaths : fileReadPreHook(a, p)
    \/ \E a \in Agents, p \in FlowPaths, i \in IntentIds, s \in Scopes :
          \E g \in {a, NoAgent} :
             /\ \A b \in Agents : pc[b] = "idle"
             /\ writeFilePreHook(a, p, i, s, g)
    \/ \E a \in Agents : writeFilePreHookResume(a)
    \/ \E a \in Agents : runtimeBlocked(a)
    \/ \E a \in Agents : runtimeWriteFails(a)
    \/ \E a \in Agents, p \in FlowPaths : releaseSnapshotCall(a, p)
    \/ \E a \in Agents : releaseAllForAgentCall(a)
    \/ cleanupTimer
    \/ tick
    \/ \E p \in FlowPaths, c \in Contents \cup {ENOENT} : externalWrite(p, c)

SpecGate == Init /\ [][NextGate]_vars


\* the recorder called directly by two agents, for two files and two intents
LedgerIntentIds == {Null, "INT-001", "INT-002"}

NextLedger ==
    \/ \E a \in Agents, p \in Paths, i \in LedgerIntentIds :
          writeFilePostHookCall(a, p, ContentY, i, a)
    \/ \E a \in Agents, r \in GitAnswers : postHookRevision(a, r)
    \/ \E a \in Agents, ok \in BOOLEAN : postHookAppend(a, ok)
    \/ \E a \in Agents, ok \in BOOLEAN : postHookMapRead(a, ok)
    \/ \E a \in Agents, ok \in BOOLEAN : postHookMapWrite(a, ok)
    \/ \E a \in Agents : postHookRelease(a)

SpecLedger == Init /\ [][NextLedger]_vars

(***************************************************************************)
(* The ledger writer and reader called directly (traceStorage.ts)          *)
(***************************************************************************)
\* "sha256:" and the digest of a content
GoodHash == <<"sha256:">> \o sha256(ContentY)

candidateRange(start, end, hash) ==
    [start_line |-> start, end_line |-> end, content_hash |-> hash]

\* ranges a caller may hand over: a proper one, one that starts at line 0, one
\* that ends before it starts, one whose hash is no sha256 digest, one whose
\* start is NaN
CandidateRanges ==
    { candidateRange(Num(1), Num(2), GoodHash),
      candidateRange(Num(0), Num(1), GoodHash),
      candidateRange(Num(2), Num(1), GoodHash),
      candidateRange(Num(1), Num(2), <<"md5:", "d41d8cd9">>),
      candidateRange(NaN, Num(1), GoodHash) }

candidateFile(range) ==
    [relative_path |-> <<"src", "a.ts">>,
     conversations |-> <<
        [url |-> <<"session://", 0>>,
         contributor |-> [entity_type |-> "AI", model_identifier |-> "unknown"],
         ranges |-> <<range>>,
         related |-> << [type |-> "specification", value |-> "INT-001"] >>] >>]

candidateEntry(files, mutationClass) ==
    [id |-> <<"uuid", 0>>, timestamp |-> 0, vcs |-> [revision_id |-> "unknown"],
     files |-> files, mutation_class |-> mutationClass]

\* an object without one of its keys
withoutKey(entry, key) == [k \in DOMAIN entry \ {key} |-> entry[k]]

validEntry == candidateEntry(<<candidateFile(candidateRange(Num(1), Num(2), GoodHash))>>,
                             "BUG_FIX")

\* the entries handed to appendToTraceLog
Candidates ==
    { candidateEntry(<<candidateFile(r)>>, "BUG_FIX") : r \in CandidateRanges }
    \cup { candidateEntry(<<>>, "BUG_FIX"),
           [validEntry EXCEPT !.mutation_class = "REWRITE"],
           withoutKey(validEntry, "mutation_class"),
           withoutKey(validEntry, "id") }

\* appendToTraceLog(workspaceRoot, entry): throws "Invalid trace entry" for an
\* entry isValidTraceEntry rejects, throws the error of a failed write, and
\* otherwise has appended the line; ok says whether the write succeeds
appendToTraceLogCall(entry, ok) ==
    /\ Len(results) < MaxCalls
    /\ \A a \in Agents : pc[a] = "idle"
    /\ IF ~isValidTraceEntry(entry)
       THEN /\ results' = Append(results, [op |-> "appendToTraceLog", entry |-> entry,
                                           ret |-> "Invalid trace entry"])
            /\ UNCHANGED traceLog
       ELSE IF ~ok
       THEN /\ results' = Append(results, [op |-> "appendToTraceLog", entry |-> entry,
                                           ret |-> "EIO"])
            /\ UNCHANGED traceLog
       ELSE /\ results' = Append(results, [op |-> "appendToTraceLog", entry |-> entry,
                                           ret |-> "ok"])
            /\ traceLog' = appendFile(traceLog, entry)
    /\ UNCHANGED <<disk, now, storeVars, intentMap, gitCache, flowVars,
                   historyVars, claudeMd, registryVars>>

\* readTraceLog(workspaceRoot)
readTraceLogCall ==
    /\ Len(results) < MaxCalls
    /\ \A a \in Agents : pc[a] = "idle"
    /\ results' = Append(results, [op |-> "readTraceLog",
                                   ret |-> readTraceLog(traceLog)])
    /\ UNCHANGED <<disk, now, storeVars, ledgerVars, flowVars, historyVars, claudeMd,
                   registryVars>>

NextTrace ==
    \/ \E entry \in Candidates, ok \in BOOLEAN : appendToTraceLogCall(entry, ok)
    \/ readTraceLogCall

SpecTrace == Init /\ [][NextTrace]_vars

(***************************************************************************)
(* The intent-map writer called directly (intentMap.ts)                    *)
(***************************************************************************)
\* intent_map.md as a workspace may hold it: absent; written by the writer;
\* written by hand with a header that has no name, or with a section that
\* lists no file, or with sections and paths out of order, a path listed
\* twice and one written with backslashes
HandWrittenMap ==
    <<Title, Blank, Header("INT-002", "Billing"), Blank,
      Bullet(<<"src", "b.ts">>), BackslashBullet(<<"src", "a.ts">>),
      Bullet(<<"src", "a.ts">>), Blank,
      Header("INT-001", ""), Blank, Bullet(<<"src", "a.ts">>), Blank>>

MapFiles ==
    { ENOENT,
      buildIntentMapContent([ids |-> {"INT-001"},
                             files |-> {<<"INT-001", <<"src", "a.ts">>>>},
                             names |-> {<<"INT-001", "Auth">>}]),
      buildIntentMapContent([ids |-> {"INT-001", "INT-002"},
                             files |-> {<<"INT-001", <<"src", "a.ts">>>>,
                                        <<"INT-001", <<"src", "b.ts">>>>,
                                        <<"INT-002", <<"src", "b.ts">>>>},
                             names |-> {}]),
      <<Title, Blank, Header("INT-001", ""), Blank, Bullet(<<"src", "a.ts">>), Blank>>,
      <<Title, Blank, Header("INT-002", "Billing"), Blank, NoFiles, Blank>>,
      HandWrittenMap }

MapIntentIds == {"INT-001", "INT-002"}
MapIntentNames == {Undefined, Name("Auth")}

\* updateIntentMap(workspaceRoot, intentId, filePath, intentName?), alone:
\* readFile, parse, add, writeFile; ok says whether the file operations succeed
updateIntentMapCall(intentId, filePath, intentName, ok) ==
    /\ Len(results) < MaxCalls
    /\ \A a \in Agents : pc[a] = "idle"
    /\ results' = Append(results, [op |-> "updateIntentMap", intentId |-> intentId,
                                   path |-> filePath, name |-> intentName,
                                   before |-> intentMap,
                                   ret |-> IF ok THEN "ok" ELSE "EACCES"])
    /\ intentMap' = IF ok
                    THEN buildIntentMapContent(
                            withFile(loadIntentMap(intentMap), intentId, filePath,
                                     intentName))
                    ELSE intentMap
    /\ UNCHANGED <<disk, now, storeVars, traceLog, gitCache, flowVars,
                   historyVars, claudeMd, registryVars>>

\* removeFromIntentMap(workspaceRoot, intentId, filePath), alone: nothing is
\* written when the file does not exist
removeFromIntentMapCall(intentId, filePath, ok) ==
    /\ Len(results) < MaxCalls
    /\ \A a \in Agents : pc[a] = "idle"
    /\ results' = Append(results, [op |-> "removeFromIntentMap", intentId |-> intentId,
                                   path |-> filePath, before |-> intentMap,
                                   ret |-> IF ok \/ intentMap = ENOENT
                                           THEN "ok" ELSE "EACCES"])
    /\ intentMap' = IF ok /\ intentMap # ENOENT
                    THEN buildIntentMapContent(
                            withoutFile(loadIntentMap(intentMap), intentId, filePath))
                    ELSE intentMap
    /\ UNCHANGED <<disk, now, storeVars, traceLog, gitCache, flowVars,
                   historyVars, claudeMd, registryVars>>

InitMap ==
    /\ disk \in {d \in [Paths -> {ContentX, ENOENT}] :
                   \A p \in Paths \ FlowPaths : d[p] = ENOENT}
    /\ snapshots = [p \in Paths |-> Nil]
    /\ now = 0
    /\ traceLog = <<>>
    /\ intentMap \in MapFiles
    /\ gitCache = Nil
    /\ pc = [a \in Agents |-> "idle"]
    /\ call = [a \in Agents |-> NoCall]
    /\ local = [a \in Agents |-> NoLocal]
    /\ verdict = [a \in Agents |-> "none"]
    /\ held = [a \in Agents |-> [p \in Paths |-> Nil]]
    /\ ver = [p \in Paths |-> 0]
    /\ rivalWon = [a \in Agents |-> [p \in Paths |-> FALSE]]
    /\ overwritten = [a \in Agents |-> [p \in Paths |-> FALSE]]
    /\ claudeMd = ENOENT
    /\ results = <<>>
    /\ task = NoMistakes
    /\ sessions = [a \in Agents |-> Nil]
    /\ gitCacheElse = Nil
    /\ cleanupInterval = Timeout(1)
    /\ timers = {[handle |-> Timeout(1), maxAgeMs |-> DEFAULT_MAX_AGE]}

NextMap ==
    \/ \E i \in MapIntentIds, p \in Paths, n \in MapIntentNames, ok \in BOOLEAN :
          updateIntentMapCall(i, p, n, ok)
    \/ \E i \in MapIntentIds, p \in Paths, ok \in BOOLEAN :
          removeFromIntentMapCall(i, p, ok)

SpecMap == InitMap /\ [][NextMap]_vars

(***************************************************************************)
(* Lessons store (claudeManager.ts): CLAUDE.md is kept as its characters,  *)
(* the parts of a section header as one character each                     *)
(***************************************************************************)
\* "---"
Separator == <<"-", "-", "-">>

isPrefix(p, s) == Len(p) <= Len(s) /\ SubSeq(s, 1, Len(p)) = p

\* String.prototype.split on a separator of several characters
RECURSIVE splitOn(_, _)
splitOn(s, sep) ==
    IF \A i \in 1..Len(s) : ~isPrefix(sep, SubSeq(s, i, Len(s))) THEN <<s>>
    ELSE LET k == CHOOSE i \in 1..Len(s) :
                     /\ isPrefix(sep, SubSeq(s, i, Len(s)))
                     /\ \A j \in 1..(i - 1) : ~isPrefix(sep, SubSeq(s, j, Len(s)))
         IN <<SubSeq(s, 1, k - 1)>> \o splitOn(SubSeq(s, k + Len(sep), Len(s)), sep)

\* String.prototype.includes
includes(s, needle) ==
    \E i \in 1..(Len(s) + 1) : isPrefix(needle, SubSeq(s, i, Len(s)))

\* readClaudeBrain: the content, "" when the file does not exist
readClaudeBrain(content) == IF content = ENOENT THEN <<>> ELSE content

\* existing.split("---").filter((s) => s.trim())
lessonSections(existing) ==
    SelectSeq(splitOn(existing, Separator), LAMBDA sec : Len(trim(sec)) > 0)

\* a variant that looks at every section of the document
recentLessonsAll(existing) == join(lessonSections(existing), "\n")

\* sections.slice(-5).join("\n")
recentLessons(existing) ==
    LET sections == lessonSections(existing)
    IN join(SubSeq(sections, Max(1, Len(sections) - 4), Len(sections)), "\n")

\* `## [${category}] ${timestamp}\n${lesson}\n---\n`
formatLesson(category, lesson) ==
    <<"## [", category, "] ", ToString(now), "\n">> \o lesson
    \o <<"\n">> \o Separator \o <<"\n">>

\* getInitialHeader(): the title, the line that says what the file is for,
\* and a rule
getInitialHeader ==
    <<"#", "\n", "\n", "T", "\n", "\n">> \o Separator \o <<"\n">>

\* fs.appendFile(claudePath, content): the file is created when it is missing
appendToClaudeBrain(content, formatted) == readClaudeBrain(content) \o formatted

LessonCategories == {"TESTING", "GENERAL"}
\* lesson texts: plain, with blanks around, with a "---" rule in it, empty
Lessons == { <<"a">>, <<" ", "a", "\n">>, <<"b">>, <<"a", "\n">> \o Separator \o <<"\n", "b">>,
             <<>> }

\* recordLesson(workspaceRoot, category, lesson), alone; ok says whether the
\* file operations succeed
recordLessonCall(category, lesson, ok) ==
    /\ Len(results) < MaxCalls
    /\ \A a \in Agents : pc[a] = "idle"
    /\ LET existing == readClaudeBrain(claudeMd)
           duplicate == /\ Len(existing) > 0
                        /\ includes(recentLessons(existing), trim(lesson))
       IN /\ results' = Append(results, [op |-> "recordLesson", category |-> category,
                                         lesson |-> lesson, before |-> claudeMd,
                                         threw |-> ~ok,
                                         ret |-> ok /\ ~duplicate])
          /\ claudeMd' = IF ok /\ ~duplicate
                         THEN appendToClaudeBrain(claudeMd, formatLesson(category, lesson))
                         ELSE claudeMd
    /\ UNCHANGED <<disk, now, storeVars, ledgerVars, flowVars, historyVars, registryVars>>

NextLessons ==
    \E category \in LessonCategories, lesson \in Lessons, ok \in BOOLEAN :
       recordLessonCall(category, lesson, ok)

SpecLessons == Init /\ [][NextLessons]_vars

(***************************************************************************)
(* recordLesson as it runs: it awaits the read of CLAUDE.md, and then the  *)
(* append; calls of several agents interleave at these two points          *)
(***************************************************************************)
RecordLessons == { <<"a">>, <<"b">> }

\* the calls begun so far
lessonCallsBegun ==
    Len(results) + Cardinality({a \in Agents : pc[a] \in {"lessonRead", "lessonAppend"}})

\* recordLesson is called and awaits readClaudeBrain
recordLessonBegin(a, category, lesson) ==
    /\ pc[a] = "idle"
    /\ lessonCallsBegun < MaxCalls
    /\ call' = [call EXCEPT ![a] = [category |-> category, lesson |-> lesson,
                                    before |-> claudeMd]]
    /\ pc' = [pc EXCEPT ![a] = "lessonRead"]
    /\ UNCHANGED <<disk, now, storeVars, ledgerVars, local, verdict, historyVars,
                   lessonVars, registryVars>>

\* what a call that ends hands back
recordLessonReturn(a, threw, ret) ==
    /\ results' = Append(results, [op |-> "recordLesson", agent |-> a,
                                   category |-> call[a].category,
                                   lesson |-> call[a].lesson,
                                   before |-> call[a].before,
                                   threw |-> threw, ret |-> ret])
    /\ call' = [call EXCEPT ![a] = NoCall]
    /\ pc' = [pc EXCEPT ![a] = "idle"]

\* the read has answered: a duplicate ends the call with false, otherwise the
\* lesson is formatted and appendToClaudeBrain is awaited
recordLessonRead(a, ok) ==
    /\ pc[a] = "lessonRead"
    /\ LET existing == readClaudeBrain(claudeMd)
           duplicate == /\ Len(existing) > 0
                        /\ includes(recentLessons(existing), trim(call[a].lesson))
       IN IF ~ok THEN recordLessonReturn(a, TRUE, FALSE)
          ELSE IF duplicate THEN recordLessonReturn(a, FALSE, FALSE)
          ELSE /\ call' = [call EXCEPT ![a] =
                              [category |-> call[a].category,
                               lesson |-> call[a].lesson,
                               before |-> call[a].before,
                               formatted |-> formatLesson(call[a].category,
                                                          call[a].lesson)]]
               /\ pc' = [pc EXCEPT ![a] = "lessonAppend"]
               /\ UNCHANGED results
    /\ UNCHANGED <<disk, now, storeVars, ledgerVars, local, verdict, historyVars,
                   claudeMd, registryVars>>

\* the append has answered
recordLessonAppend(a, ok) ==
    /\ pc[a] = "lessonAppend"
    /\ claudeMd' = IF ok THEN appendToClaudeBrain(claudeMd, call[a].formatted)
                   ELSE claudeMd
    /\ recordLessonReturn(a, ~ok, ok)
    /\ UNCHANGED <<disk, now, storeVars, ledgerVars, local, verdict, historyVars,
                   registryVars>>

NextRecord ==
    \/ \E a \in Agents, category \in LessonCategories, lesson \in RecordLessons :
          recordLessonBegin(a, category, lesson)
    \/ \E a \in Agents, ok \in BOOLEAN : recordLessonRead(a, ok)
    \/ \E a \in Agents, ok \in BOOLEAN : recordLessonAppend(a, ok)

SpecRecord == Init /\ [][NextRecord]_vars

(***************************************************************************)
(* recordLesson on documents that hold lessons already                     *)
(***************************************************************************)
\* CLAUDE.md after the lessons of a list were recorded, one after the other
RECURSIVE documentOf(_)
documentOf(lessons) ==
    IF Len(lessons) = 0 THEN ENOENT
    ELSE appendToClaudeBrain(documentOf(SubSeq(lessons, 1, Len(lessons) - 1)),
                             formatLesson("GENERAL", lessons[Len(lessons)]))

\* no document; one lesson; "a" and five lessons after it; "a" and four
\* lessons after it
LessonDocuments ==
    { ENOENT,
      documentOf(<< <<"b">> >>),
      documentOf(<< <<"a">>, <<"c">>, <<"d">>, <<"e">>, <<"f">>, <<"g">> >>),
      documentOf(<< <<"a">>, <<"c">>, <<"d">>, <<"e">>, <<"f">> >>) }

InitLessons ==
    /\ disk \in {d \in [Paths -> {ContentX, ENOENT}] :
                   \A p \in Paths \ FlowPaths : d[p] = ENOENT}
    /\ snapshots = [p \in Paths |-> Nil]
    /\ now = 0
    /\ traceLog = <<>>
    /\ intentMap = ENOENT
    /\ gitCache = Nil
    /\ pc = [a \in Agents |-> "idle"]
    /\ call = [a \in Agents |-> NoCall]
    /\ local = [a \in Agents |-> NoLocal]
    /\ verdict = [a \in Agents |-> "none"]
    /\ held = [a \in Agents |-> [p \in Paths |-> Nil]]
    /\ ver = [p \in Paths |-> 0]
    /\ rivalWon = [a \in Agents |-> [p \in Paths |-> FALSE]]
    /\ overwritten = [a \in Agents |-> [p \in Paths |-> FALSE]]
    /\ claudeMd \in LessonDocuments
    /\ results = <<>>
    /\ task = NoMistakes
    /\ sessions = [a \in Agents |-> Nil]
    /\ gitCacheElse = Nil
    /\ cleanupInterval = Timeout(1)
    /\ timers = {[handle |-> Timeout(1), maxAgeMs |-> DEFAULT_MAX_AGE]}

SpecWindow == InitLessons /\ [][NextLessons]_vars

(***************************************************************************)
(* The record_lesson tool (recordLessonTool.ts)                            *)
(***************************************************************************)
\* the categories of a lesson (claudeManager.ts)
LessonCategory ==
    {"ARCHITECTURE", "TESTING", "LINTER", "BUILD", "USER_FEEDBACK", "STYLE",
     "PERFORMANCE", "SECURITY", "GENERAL"}

\* the categories the tool lets through
validCategories ==
    {"ARCHITECTURE", "TESTING", "LINTER", "STYLE", "PERFORMANCE", "SECURITY", "GENERAL"}

\* the parameters a model may send: a category of the enumeration, another
\* word, or none (""); a lesson text, or none (<<>>)
ToolCategories == LessonCategory \cup {"REFACTOR", ""}
ToolLessons == { <<"a">>, <<>> }

\* task.consecutiveMistakeCount++, task.recordToolError, didToolFailInCurrentTurn
toolMistake(t) ==
    [consecutiveMistakeCount |-> t.consecutiveMistakeCount + 1,
     toolErrors |-> t.toolErrors + 1,
     didToolFailInCurrentTurn |-> TRUE]

\* RecordLessonTool.execute, alone; ok says whether the file operations of
\* recordLesson succeed. pushed is what pushToolResult gets: a tool error, or
\* a tool result; a throw of recordLesson goes to handleError
executeRecordLesson(category, lesson, ok) ==
    /\ Len(results) < MaxCalls
    /\ \A a \in Agents : pc[a] = "idle"
    /\ LET existing == readClaudeBrain(claudeMd)
           duplicate == /\ Len(existing) > 0
                        /\ includes(recentLessons(existing), trim(lesson))
           entry(pushed) == [op |-> "record_lesson", category |-> category,
                             lesson |-> lesson, pushed |-> pushed]
       IN IF category = "" \/ lesson = <<>>
          THEN /\ task' = toolMistake(task)
               /\ results' = Append(results, entry("toolError: missing parameter"))
               /\ UNCHANGED claudeMd
          ELSE IF category \notin validCategories
          THEN /\ task' = toolMistake(task)
               /\ results' = Append(results, entry("toolError: invalid category"))
               /\ UNCHANGED claudeMd
          ELSE IF ~ok
          THEN /\ results' = Append(results, entry("handleError"))
               /\ UNCHANGED <<task, claudeMd>>
          ELSE IF duplicate
          THEN /\ results' = Append(results, entry("toolResult: skipped"))
               /\ UNCHANGED <<task, claudeMd>>
          ELSE /\ results' = Append(results, entry("toolResult: recorded"))
               /\ claudeMd' = appendToClaudeBrain(claudeMd,
                                                  formatLesson(category, lesson))
               /\ UNCHANGED task
    /\ UNCHANGED <<disk, now, storeVars, ledgerVars, flowVars, historyVars,
                   sessions, gitCacheElse,
                   timerVars>>

NextTool ==
    \E category \in ToolCategories, lesson \in ToolLessons, ok \in BOOLEAN :
       executeRecordLesson(category, lesson, ok)

SpecTool == Init /\ [][NextTool]_vars

(***************************************************************************)
(* The session registry with the hooks, its sweeper and the clock          *)
(***************************************************************************)
\* the instants at which the registry observes the clock
SessionTimes == {0, 1, SESSION_TIMEOUT + 1}

registerAgentCall(a, intentId) ==
    /\ pc[a] = "idle"
    /\ sessions' = registerAgent(sessions, a, intentId, now)
    /\ UNCHANGED <<disk, now, storeVars, ledgerVars, flowVars, historyVars,
                   lessonVars, task, gitCacheElse,
                   timerVars>>

unregisterAgentCall(a) ==
    /\ pc[a] = "idle"
    /\ sessions[a] # Nil
    /\ sessions' = unregisterAgent(sessions, a)
    /\ UNCHANGED <<disk, now, storeVars, ledgerVars, flowVars, historyVars,
                   lessonVars, task, gitCacheElse,
                   timerVars>>

updateActivityCall(a) ==
    /\ sessions' = updateActivity(sessions, a, now)
    /\ UNCHANGED <<disk, now, storeVars, ledgerVars, flowVars, historyVars,
                   lessonVars, task, gitCacheElse,
                   timerVars>>

addFileCall(a, filePath) ==
    /\ sessions' = addFile(sessions, a, filePath, now)
    /\ UNCHANGED <<disk, now, storeVars, ledgerVars, flowVars, historyVars,
                   lessonVars, task, gitCacheElse,
                   timerVars>>

removeFileCall(a, filePath) ==
    /\ sessions' = removeFile(sessions, a, filePath)
    /\ UNCHANGED <<disk, now, storeVars, ledgerVars, flowVars, historyVars,
                   lessonVars, task, gitCacheElse,
                   timerVars>>

\* the setInterval callback of AgentSessionManager.startCleanupInterval
sessionCleanupTimer ==
    /\ sessions' = cleanupStaleSessions(sessions, now, SESSION_TIMEOUT)
    /\ UNCHANGED <<disk, now, storeVars, ledgerVars, flowVars, historyVars,
                   lessonVars, task, gitCacheElse,
                   timerVars>>

sessionTick ==
    /\ \E t \in SessionTimes : t > now /\ now' = t
    /\ UNCHANGED <<disk, storeVars, ledgerVars, flowVars, historyVars,
                   lessonVars, registryVars>>

\* one file, one gatekeeper call in flight at a time
RegistryPaths == {CHOOSE p \in FlowPaths : TRUE}

NextRegistry ==
    \/ \E a \in Agents, i \in FlowIntentIds : registerAgentCall(a, i)
    \/ \E a \in Agents : unregisterAgentCall(a)
    \/ \E a \in Agents : updateActivityCall(a)
    \/ \E a \in Agents, p \in RegistryPaths : addFileCall(a, p)
    \/ \E a \in Agents, p \in RegistryPaths : removeFileCall(a, p)
    \/ sessionCleanupTimer
    \/ sessionTick
    \/ \E a \in Agents, p \in RegistryPaths : fileReadPreHook(a, p)
    \/ \E a \in Agents, p \in RegistryPaths, i \in FlowIntentIds, s \in FlowScopes :
          /\ \A b \in Agents : pc[b] = "idle"
          /\ writeFilePreHook(a, p, i, s, a)
    \/ \E a \in Agents : writeFilePreHookResume(a)
    \/ \E a \in Agents : runtimeBlocked(a)
    \/ \E a \in Agents : runtimeWriteFails(a)
    \/ \E a \in Agents : releaseAllForAgentCall(a)

SpecRegistry == Init /\ [][NextRegistry]_vars

(***************************************************************************)
(* The snapshot store called directly: captures, releases, sweeps          *)
(***************************************************************************)
\* the instants at which the store observes the clock
SweepTimes == {0, 1, DEFAULT_MAX_AGE + 1}
\* the maxAgeMs a sweep is called with
SweepAges == {DEFAULT_MAX_AGE, 1}

\* the number of entries a store call deleted
removed(before, after) ==
    Cardinality({p \in Paths : before[p] # Nil /\ after[p] = Nil})

\* the holder history is not followed here: the store is called directly

\* takeSnapshot(filePath, content, agentId, workspaceRoot)
storeTake(a, filePath, content) ==
    /\ snapshots' = takeSnapshot(snapshots, filePath, content, a, now)
    /\ UNCHANGED <<disk, now, held, ledgerVars, flowVars, historyVars,
                   lessonVars, registryVars>>

\* releaseSnapshot(filePath, agentId, workspaceRoot)
storeRelease(a, filePath) ==
    /\ Len(results) < MaxCalls
    /\ snapshots' = releaseSnapshot(snapshots, filePath, a)
    /\ results' = Append(results, [op |-> "releaseSnapshot", agentId |-> a,
                                   filePath |-> filePath,
                                   removed |-> removed(snapshots, snapshots')])
    /\ UNCHANGED <<disk, now, held, ledgerVars, flowVars, historyVars, claudeMd,
                   registryVars>>

\* releaseAllForAgent(agentId)
storeReleaseAll(a) ==
    /\ Len(results) < MaxCalls
    /\ snapshots' = releaseAllForAgent(snapshots, a)
    /\ results' = Append(results, [op |-> "releaseAllForAgent", agentId |-> a,
                                   removed |-> removed(snapshots, snapshots')])
    /\ UNCHANGED <<disk, now, held, ledgerVars, flowVars, historyVars, claudeMd,
                   registryVars>>

\* cleanupStaleSnapshots(maxAgeMs); removed is its counter cleaned
storeSweep(maxAgeMs) ==
    /\ Len(results) < MaxCalls
    /\ snapshots' = cleanupStaleSnapshots(snapshots, now, maxAgeMs)
    /\ results' = Append(results, [op |-> "cleanupStaleSnapshots",
                                   maxAgeMs |-> maxAgeMs, at |-> now,
                                   removed |-> removed(snapshots, snapshots')])
    /\ UNCHANGED <<disk, now, held, ledgerVars, flowVars, historyVars, claudeMd,
                   registryVars>>

sweepTick ==
    /\ \E t \in SweepTimes : t > now /\ now' = t
    /\ UNCHANGED <<disk, storeVars, ledgerVars, flowVars, historyVars,
                   lessonVars, registryVars>>

NextStore ==
    \/ \E a \in Agents, p \in Paths : storeTake(a, p, ContentX)
    \/ \E a \in Agents, p \in Paths : storeRelease(a, p)
    \/ \E a \in Agents : storeReleaseAll(a)
    \/ \E maxAgeMs \in SweepAges : storeSweep(maxAgeMs)
    \/ sweepTick

SpecStore == Init /\ [][NextStore]_vars

(***************************************************************************)
(* getCurrentRevision and clearGitCache called directly, for two roots     *)
(***************************************************************************)
\* the workspace root of the flows, and another one
Roots == {"root", "else"}
cacheOf(root) == IF root = "root" THEN gitCache ELSE gitCacheElse

\* the instants at which Date.now() is read
GitTimes == {0, CACHE_TTL_MS - 1, CACHE_TTL_MS}
\* HEAD may move between two calls, and git may fail
GitCallAnswers ==
    {[stdout |-> "abc123"], [stdout |-> "def456"], [error |-> "not a git repository"]}
\* the calls made in one run
MaxGitCalls == MaxCalls + 1

gitCallsBegun == Len(results) + Cardinality({a \in Agents : pc[a] = "git"})

\* what a call of getCurrentRevision returned: spawned says whether git was
\* run, seen counts the calls that were over when this one began
revisionReturn(root, ret, spawned, startedAt, seen) ==
    [op |-> "getCurrentRevision", root |-> root, ret |-> ret, spawned |-> spawned,
     startedAt |-> startedAt, completedAt |-> now, seen |-> seen]

\* getCurrentRevision up to the await of execAsync: a fresh cache entry is
\* returned at once
getCurrentRevisionCall(a, root) ==
    /\ pc[a] = "idle"
    /\ gitCallsBegun < MaxGitCalls
    /\ LET cached == cacheOf(root) IN
       IF cached # Nil /\ now - cached.timestamp < CACHE_TTL_MS
       THEN /\ results' = Append(results,
                   revisionReturn(root, cached.revision, FALSE, now, Len(results)))
            /\ UNCHANGED flowVars
       ELSE /\ pc' = [pc EXCEPT ![a] = "git"]
            /\ call' = [call EXCEPT ![a] =
                           [root |-> root, startedAt |-> now, seen |-> Len(results)]]
            /\ UNCHANGED <<local, verdict, results>>
    /\ UNCHANGED <<disk, now, storeVars, ledgerVars, historyVars, claudeMd,
                   registryVars>>

\* execAsync has settled: the cache entry of the root is set, stamped with the
\* time read when the call began
getCurrentRevisionSettles(a, answer) ==
    /\ pc[a] = "git"
    /\ LET entry == [revision |-> revParse(answer), timestamp |-> call[a].startedAt]
       IN IF call[a].root = "root"
          THEN gitCache' = entry /\ UNCHANGED gitCacheElse
          ELSE gitCacheElse' = entry /\ UNCHANGED gitCache
    /\ results' = Append(results,
            revisionReturn(call[a].root, revParse(answer), TRUE,
                           call[a].startedAt, call[a].seen))
    /\ pc' = [pc EXCEPT ![a] = "idle"]
    /\ call' = [call EXCEPT ![a] = NoCall]
    /\ UNCHANGED <<disk, now, storeVars, traceLog, intentMap, local, verdict,
                   historyVars, claudeMd, task, sessions,
                   timerVars>>

\* cache.clear()
clearGitCacheCall ==
    /\ gitCallsBegun < MaxGitCalls
    /\ gitCache' = Nil
    /\ gitCacheElse' = Nil
    /\ results' = Append(results, [op |-> "clearGitCache"])
    /\ UNCHANGED <<disk, now, storeVars, traceLog, intentMap, flowVars,
                   historyVars, claudeMd, task, sessions,
                   timerVars>>

gitTick ==
    /\ \E t \in GitTimes : t > now /\ now' = t
    /\ UNCHANGED <<disk, storeVars, ledgerVars, flowVars, historyVars,
                   lessonVars, registryVars>>

NextGit ==
    \/ \E a \in Agents, root \in Roots : getCurrentRevisionCall(a, root)
    \/ \E a \in Agents, answer \in GitCallAnswers : getCurrentRevisionSettles(a, answer)
    \/ clearGitCacheCall
    \/ gitTick

SpecGit == Init /\ [][NextGit]_vars

(***************************************************************************)
(* The recorder called directly with contents of every line-ending style   *)
(***************************************************************************)
\* one and two lines, with and without a last line break, ended by LF, CRLF
\* or a lone CR; and the empty content
HashContents ==
    { <<>>, <<"x">>, ContentX, ContentXcrlf, <<"x", "\r">>,
      <<"x", "\n", "y">>, <<"x", "\r", "\n", "y">>, <<"x", "\r", "y">>,
      <<"x", "\r", "y", "\n">> }

NextHash ==
    \/ \E a \in Agents, c \in HashContents :
          writeFilePostHookCall(a, CHOOSE p \in FlowPaths : TRUE, c, "INT-001", a)
    \/ \E a \in Agents, r \in FlowGitAnswers : postHookRevision(a, r)
    \/ \E a \in Agents, ok \in BOOLEAN : postHookAppend(a, ok)
    \/ \E a \in Agents, ok \in BOOLEAN : postHookMapRead(a, ok)
    \/ \E a \in Agents, ok \in BOOLEAN : postHookMapWrite(a, ok)
    \/ \E a \in Agents : postHookRelease(a)

SpecHash == Init /\ [][NextHash]_vars

(***************************************************************************)
(* One writer: agent a1 alone reads the file and writes it, through the    *)
(* gatekeeper and under its agent id; nobody else touches the file         *)
(***************************************************************************)
Writer == "a1"

NextOwnWrite ==
    \/ \E p \in FlowPaths : fileReadPreHook(Writer, p)
    \/ \E p \in FlowPaths, i \in FlowIntentIds, s \in FlowScopes :
          writeFilePreHook(Writer, p, i, s, Writer)
    \/ writeFilePreHookResume(Writer)
    \/ runtimeBlocked(Writer)
    \/ \E c \in FlowContents : runtimeWrite(Writer, c)
    \/ runtimeWriteFails(Writer)
    \/ \E r \in FlowGitAnswers : postHookRevision(Writer, r)
    \/ \E ok \in BOOLEAN : postHookAppend(Writer, ok)
    \/ \E ok \in BOOLEAN : postHookMapRead(Writer, ok)
    \/ \E ok \in BOOLEAN : postHookMapWrite(Writer, ok)
    \/ postHookRelease(Writer)

SpecOwnWrite == Init /\ [][NextOwnWrite]_vars

(***************************************************************************)
(* The recorder called with an explicit class and with the old content     *)
(***************************************************************************)
\* direct calls of the recorder that pass mutation_class or oldContent
MaxClassified == 1

\* writeFilePostHook(args, result, context) with args.mutation_class (Undefined
\* when left out) and, when the field is there, context.oldContent
writeFilePostHookCallWith(a, args, context) ==
    /\ pc[a] = "idle"
    /\ Len(results) < MaxClassified
    /\ results' = Append(results, [op |-> "writeFilePostHook",
                                   intentId |-> context.intentId,
                                   path |-> args.path])
    /\ IF context.intentId = Null
       THEN UNCHANGED flowVars
       ELSE /\ call' = [call EXCEPT ![a] =
                  IF "oldContent" \in DOMAIN context
                  THEN [path |-> args.path, intentId |-> context.intentId,
                        ownedScope |-> Undefined, agentId |-> context.agentId,
                        content |-> args.content,
                        mutation_class |-> args.mutation_class,
                        oldContent |-> context.oldContent]
                  ELSE [path |-> args.path, intentId |-> context.intentId,
                        ownedScope |-> Undefined, agentId |-> context.agentId,
                        content |-> args.content,
                        mutation_class |-> args.mutation_class]]
            /\ local' = [local EXCEPT ![a] = postLocal(<<"uuid", Len(results) + 1>>)]
            /\ pc' = [pc EXCEPT ![a] = IF cacheHit THEN "append" ELSE "revision"]
            /\ UNCHANGED verdict
    /\ UNCHANGED <<disk, now, storeVars, ledgerVars, historyVars, claudeMd, registryVars>>

ConstX1 == <<"const x = 1;">>
ConstX2Updated == <<"const x = 2;", " ", "//", " updated">>
\* contents that differ in a line comment, a block comment, an asterisk line,
\* a statement, a statement matching a bug-fix pattern, and in size
ClassifierContents ==
    { <<>>, ConstX1, ConstX2Updated,
      <<"const x = 1;", " ", "//", " fix">>,
      <<"/*", " fix", "*/", "\n", "const x = 1;">>,
      <<"const x = 1;", "\n", " ", "*", " Prefix">>,
      <<"const x = null;">>,
      <<"const y = 1;">>,
      <<"const x = 1;", "\n", "assert(x);">>,
      <<"const x = 1;", "\n", "const y = 1;">> }

ExplicitClasses == {Str(k) : k \in MUTATION_CLASSES \cup {"INVALID", ""}}

ClassifyCalls ==
    LET p == CHOOSE q \in FlowPaths : TRUE
        ctx == [intentId |-> "INT-001", agentId |-> "a1"]
        withOld(o) == [intentId |-> "INT-001", agentId |-> "a1", oldContent |-> o]
    IN     { <<[path |-> p, content |-> n, mutation_class |-> Undefined], ctx>> :
                n \in ClassifierContents }
      \cup { <<[path |-> p, content |-> n, mutation_class |-> Undefined], withOld(o)>> :
                n \in ClassifierContents, o \in ClassifierContents }
      \cup { <<[path |-> p, content |-> ConstX2Updated, mutation_class |-> e], ctx>> :
                e \in ExplicitClasses }
      \cup { <<[path |-> p, content |-> ConstX2Updated, mutation_class |-> e],
               withOld(ConstX1)>> : e \in ExplicitClasses }

NextClassify ==
    \/ \E k \in ClassifyCalls : writeFilePostHookCallWith("a1", k[1], k[2])
    \/ \E a \in Agents, r \in FlowGitAnswers : postHookRevision(a, r)
    \/ \E a \in Agents, ok \in BOOLEAN : postHookAppend(a, ok)
    \/ \E a \in Agents, ok \in BOOLEAN : postHookMapRead(a, ok)
    \/ \E a \in Agents, ok \in BOOLEAN : postHookMapWrite(a, ok)
    \/ \E a \in Agents : postHookRelease(a)

SpecClassify == Init /\ [][NextClassify]_vars

(***************************************************************************)
(* The sweeper of the snapshot store: its timer, started and stopped       *)
(***************************************************************************)
TimerHandles == {Timeout(1), Timeout(2)}

\* the callback of an active timer; console.debug reports what it cleaned
intervalCallback(t) ==
    /\ t \in timers
    /\ snapshots' = cleanupStaleSnapshots(snapshots, now, t.maxAgeMs)
    /\ results' =
          IF removed(snapshots, snapshots') > 0 /\ Len(results) < MaxCalls
          THEN Append(results, [op |-> "cleanupInterval", handle |-> t.handle,
                                at |-> now,
                                removed |-> removed(snapshots, snapshots')])
          ELSE results
    /\ UNCHANGED <<disk, now, held, ledgerVars, flowVars, historyVars, claudeMd,
                   registryVars>>

sweeperFires == \E t \in timers : intervalCallback(t)

startCleanupIntervalCall(maxAgeMs) ==
    /\ \E handle \in TimerHandles :
          /\ \A t \in timers : t.handle # handle
          /\ LET st == startCleanupInterval(sweeperOf(cleanupInterval, timers),
                                            handle, maxAgeMs)
             IN /\ cleanupInterval' = st.cleanupInterval
                /\ timers' = st.timers
    /\ UNCHANGED <<disk, now, storeVars, ledgerVars, flowVars, historyVars,
                   lessonVars, task, sessions, gitCacheElse>>

stopCleanupIntervalCall ==
    /\ LET st == stopCleanupInterval(sweeperOf(cleanupInterval, timers))
       IN /\ cleanupInterval' = st.cleanupInterval
          /\ timers' = st.timers
    /\ UNCHANGED <<disk, now, storeVars, ledgerVars, flowVars, historyVars,
                   lessonVars, task, sessions, gitCacheElse>>

NextSweeper ==
    \/ \E a \in Agents, p \in Paths : storeTake(a, p, ContentX)
    \/ \E a \in Agents, p \in Paths : releaseSnapshotCall(a, p)
    \/ \E a \in Agents, p \in FlowPaths, i \in FlowIntentIds, s \in FlowScopes :
          /\ \A b \in Agents : pc[b] = "idle"
          /\ writeFilePreHook(a, p, i, s, a)
    \/ \E a \in Agents : writeFilePreHookResume(a)
    \/ \E a \in Agents : runtimeBlocked(a)
    \/ \E a \in Agents : runtimeWriteFails(a)
    \/ sweeperFires
    \/ \E maxAgeMs \in SweepAges : startCleanupIntervalCall(maxAgeMs)
    \/ stopCleanupIntervalCall
    \/ sweepTick

\* an active timer keeps firing, and time advances
SpecSweeper ==
    /\ Init
    /\ [][NextSweeper]_vars
    /\ WF_vars(sweeperFires)
    /\ WF_vars(sweepTick)


(***************************************************************************)
(* Properties                                                              *)
(***************************************************************************)
\* the step in which the writeFilePreHook call of agent a returns
GateReturned(a) == pc[a] \in {"idle", "verify"} /\ pc'[a] \in {"blocked", "gated"}

\* the content readFile delivers at this step has the digest d
DiskHasDigest(filePath, d) ==
    disk[filePath] # ENOENT /\ sha256(disk[filePath]) = d

\* C1: when a rival, having captured the same content, has completed a full
\* write of different content (gatekeeper, write, recorder, release), the
\* next gatekeeper call of a holder that has not re-read is blocked as stale.
C1_StaleAfterRivalWrite ==
    [][\A a \in Agents :
          ( /\ GateReturned(a)
            /\ call'[a].agentId = a
            /\ local'[a].gover
            /\ local'[a].gheld # Nil
            /\ ~DiskHasDigest(call'[a].path, local'[a].gheld.hash) )
          => verdict'[a] = "StaleFile"]_vars

\* C2: of two flows begun from snapshots of the same file version at most
\* one passes the optimistic check and commits its write: no flow commits a
\* guarded write on a version a rival's flow has already committed on.
C2_AtMostOneWinner == \A a \in Agents : ~local[a].gwon

\* C3: a holder whose snapshot was taken at a content the file no longer has
\* is blocked with StaleFile; a holder whose snapshot is of the current
\* version of the file (re-read, no mutation since) passes the check.
C3_StaleThenRecover ==
    [][\A a \in Agents :
          ( /\ GateReturned(a)
            /\ call'[a].agentId = a
            /\ local'[a].gheld # Nil )
          => /\ ~DiskHasDigest(call'[a].path, local'[a].gheld.hash)
                => verdict'[a] = "StaleFile"
             /\ local'[a].gheld.ver = ver[call'[a].path]
                => verdict'[a] # "StaleFile"]_vars

\* C4: verify(path, holder) is true whenever the holder has no snapshot of
\* the path, whatever other holders have: such a call is never stale.
C4_NoSnapshotVerifiesTrue ==
    [][\A a \in Agents :
          ( /\ GateReturned(a)
            /\ call'[a].agentId = a
            /\ local'[a].gheld = Nil )
          => verdict'[a] # "StaleFile"]_vars

\* C5: snapshots are kept per (path, holder): the latest snapshot of every
\* holder that has not released it is in the store, whoever else captured.
C5_PerHolderSnapshots ==
    \A a \in Agents, p \in Paths :
        held[a][p] # Nil
        => /\ snapshots[p] # Nil
           /\ snapshots[p].agentId = a
           /\ snapshots[p].hash = held[a][p].hash

\* C6: when the store has a snapshot of the path taken by the calling holder,
\* verify is true exactly when the file can be read and the digest of its
\* content equals the stored digest; it is false when the file cannot be read.
C6_VerifyComparesDigest ==
    [][\A a \in Agents :
          ( /\ pc[a] = "verify"
            /\ GateReturned(a)
            /\ local[a].snapshot.agentId = a )
          => /\ (verdict'[a] # "StaleFile")
                <=> DiskHasDigest(call[a].path, local[a].snapshot.hash)
             /\ disk[call[a].path] = ENOENT => verdict'[a] = "StaleFile"]_vars

\* the holder's snapshot is stored, the file has other content, and the
\* gatekeeper has answered Stale File
C6_Witness ==
    \E a \in Agents :
        /\ pc[a] = "blocked"
        /\ verdict[a] = "StaleFile"
        /\ snapshots[call[a].path] # Nil
        /\ snapshots[call[a].path].agentId = a
        /\ disk[call[a].path] # ENOENT
        /\ sha256(disk[call[a].path]) # snapshots[call[a].path].hash

\* the checks of the gatekeeper in their order, each with its error
gateChecks(a) ==
    LET c == call'[a]
        known == c.intentId \in DOMAIN ActiveIntents
        scope == IF c.ownedScope # Undefined THEN c.ownedScope
                 ELSE IF known THEN ActiveIntents[c.intentId].owned_scope
                 ELSE <<>>
    IN << << pc[a] = "verify"
             /\ ~DiskHasDigest(c.path, local[a].snapshot.hash), "StaleFile" >>,
          << c.intentId = Null, "NoActiveIntent" >>,
          << ~known, "IntentNotFound" >>,
          << Len(scope) = 0, "NoOwnedScope" >>,
          << \A i \in 1..Len(scope) : ~globMatch(c.path, scope[i]),
             "ScopeViolation" >> >>

firstFailing(checks) ==
    LET failing == {i \in 1..Len(checks) : checks[i][1]}
    IN IF failing = {} THEN "pass"
       ELSE checks[CHOOSE i \in failing : \A j \in failing : i <= j][2]

gateVerdictOn(snaps, files, c) ==
    IF /\ c.agentId # NoAgent
       /\ snaps[c.path] # Nil
       /\ ~(files[c.path] # ENOENT /\ sha256(files[c.path]) = snaps[c.path].hash)
    THEN "StaleFile"
    ELSE intentAndScope(c)

C9_ReadErrorDoesNotBlock ==
    [][\A a \in Agents :
          ( /\ pc[a] = "verify"
            /\ GateReturned(a)
            /\ local[a].snapshot.agentId = a
            /\ disk[call[a].path] = ENOENT )
          => verdict'[a] # "StaleFile"]_vars

rowInLedger(log, row) == \E i \in 1..Len(log) : log[i] = stringify(row)

\* C10: the recorder starts the intent-map update only with its trace row in
\* the ledger, and its flow releases the snapshot only with the row in the
\* ledger and the map updated.
C10_TraceThenMapThenRelease ==
    [][\A a \in Agents :
          /\ (pc[a] # "mapRead" /\ pc'[a] = "mapRead")
             => rowInLedger(traceLog', traceEntryOf(call'[a], local'[a]))
          /\ pc'[a] = "release" => local'[a].mapped
          /\ ( /\ pc[a] \in {"revision", "append", "mapRead", "mapWrite", "release"}
               /\ pc'[a] # pc[a]
               /\ held[a][call[a].path] # Nil
               /\ held'[a][call[a].path] = Nil )
             => /\ rowInLedger(traceLog, traceEntry(a))
                /\ local[a].mapped]_vars

\* trace row appended and intent map updated, the flow is about to release
\* the snapshot its agent holds
C10_Witness ==
    \E a \in Agents :
        /\ pc[a] = "release"
        /\ held[a][call[a].path] # Nil
        /\ rowInLedger(traceLog, traceEntry(a))
        /\ local[a].mapped
        /\ <<call[a].intentId, call[a].path>> \in loadIntentMap(intentMap).files

\* C11: whatever step of the recorder fails, the call completes and nothing
\* is raised into the caller.
C11_RecorderNeverRaises == \A a \in Agents : verdict[a] # "threw"

\* one row in the ledger and no intent map: the map update of the only flow
\* that appended failed, and every call has returned
C11_Witness ==
    /\ \A a \in Agents : pc[a] = "idle" /\ verdict[a] = "none"
    /\ Len(readTraceLog(traceLog)) = 1
    /\ intentMap = ENOENT

\* the step is a call of the recorder without an intent id
PostWithoutIntent ==
    /\ Len(results') = Len(results) + 1
    /\ results'[Len(results')].op = "writeFilePostHook"
    /\ results'[Len(results')].intentId = Null

\* C12: a recorder call without an intent id does nothing: no revision probe
\* (no suspension, cache untouched), ledger, intent map and snapshot store
\* unchanged.
C12_NoIntentNoTrace ==
    [][PostWithoutIntent
       => UNCHANGED <<pc, call, local, gitCache, traceLog, intentMap, snapshots>>]_vars

\* a recorder call without an intent id has been made and the ledger is empty
C12_Witness ==
    /\ \E i \in 1..Len(results) :
          results[i].op = "writeFilePostHook" /\ results[i].intentId = Null
    /\ traceLog = <<>>
    /\ \A a \in Agents : pc[a] = "idle"

\* the entries of the ledger that carry the id
entriesWithId(text, uuid) ==
    SelectSeq(readTraceLog(text), LAMBDA e : e.id = uuid)

\* C13: a recorder call with an intent id and no failing step adds exactly
\* one entry: its append makes the ledger one entry longer whatever the
\* ledger holds, and when the call completes the ledger has one entry of its
\* id, with the written path as its single file and the intent as its single
\* related specification.
C13_OneEntryPerWrite ==
    [][\A a \in Agents :
          /\ (pc[a] = "append" /\ pc'[a] = "mapRead")
             => Len(readTraceLog(traceLog')) = Len(readTraceLog(traceLog)) + 1
          /\ (pc[a] = "release" /\ pc'[a] = "idle")
             => LET es == entriesWithId(traceLog', local[a].uuid) IN
                /\ Len(es) = 1
                /\ Len(es[1].files) = 1
                /\ es[1].files[1].relative_path = call[a].path
                /\ Len(es[1].files[1].conversations) = 1
                /\ es[1].files[1].conversations[1].related =
                      << [type |-> "specification", value |-> call[a].intentId] >>
      ]_vars

\* two writes of one path have each left their own entry
C13_Witness ==
    /\ \A a \in Agents : pc[a] = "idle"
    /\ LET es == readTraceLog(traceLog) IN
       /\ Len(es) = 2
       /\ es[1].files[1].relative_path = es[2].files[1].relative_path
       /\ es[1].id # es[2].id

\* the trace schema of the data model: a non-empty list of files, ranges that
\* start at line 1 or later and do not end before they start, content hashes
\* "sha256:" and a digest, a mutation class of the four
validHash(h) == Len(h) >= 1 /\ h[1] = "sha256:"
validRange(r) ==
    /\ "num" \in DOMAIN r.start_line /\ "num" \in DOMAIN r.end_line
    /\ r.start_line.num >= 1
    /\ r.end_line.num >= r.start_line.num
    /\ validHash(r.content_hash)
validSchema(e) ==
    /\ "id" \in DOMAIN e
    /\ Len(e.files) >= 1
    /\ \A i \in 1..Len(e.files) : \A j \in 1..Len(e.files[i].conversations) :
          \A k \in 1..Len(e.files[i].conversations[j].ranges) :
             validRange(e.files[i].conversations[j].ranges[k])
    /\ "mutation_class" \in DOMAIN e
    /\ e.mutation_class \in MUTATION_CLASSES

\* C14: after any sequence of append calls with arbitrary candidate entries
\* every line of the ledger satisfies the trace schema (files non-empty, every
\* range with start_line >= 1 and end_line >= start_line, every content_hash
\* "sha256:" and a digest, mutation_class one of the four), and append raises
\* "Invalid trace entry" for any entry that violates the schema.
C14_LedgerLinesSatisfySchema ==
    /\ \A i \in 1..Len(traceLog) :
          "json" \in DOMAIN traceLog[i] => validSchema(traceLog[i].json)
    /\ \A i \in 1..Len(results) :
          (results[i].op = "appendToTraceLog" /\ ~validSchema(results[i].entry))
             => results[i].ret = "Invalid trace entry"

\* the step is a call of appendToTraceLog that returned without throwing
AppendSucceeded ==
    /\ Len(results') = Len(results) + 1
    /\ results'[Len(results')].op = "appendToTraceLog"
    /\ results'[Len(results')].ret = "ok"

\* C15: the ledger is append-only: no operation removes or rewrites a line,
\* a successful append adds the entry as the new last line, and a read directly
\* after append(entry) returns the earlier entries in their order and entry as
\* the last element.
C15_LedgerAppendOnly ==
    [][/\ Len(traceLog') >= Len(traceLog)
       /\ SubSeq(traceLog', 1, Len(traceLog)) = traceLog
       /\ AppendSucceeded =>
             readTraceLog(traceLog')
                = Append(readTraceLog(traceLog), results'[Len(results')].entry)]_vars

\* the recorder call of agent a has had its line appended and has not returned
Appended(a) == pc[a] \in {"mapRead", "mapWrite", "release"} /\ local[a].appended

\* the places of the ledger text that hold the JSON text of an entry
placesOf(text, entry) ==
    LET row == stringify(entry) IN {i \in 1..Len(text) : text[i] = row}

\* C16: concurrent appends of one process are serialised: the JSON text of an
\* entry is followed by its line end and never by bytes of another entry, and
\* every entry appended by a call in flight is in the ledger exactly once, on
\* a complete line of its own; none is lost.
C16_ConcurrentAppendsSerialised ==
    /\ \A i \in 1..(Len(traceLog) - 1) :
          "json" \in DOMAIN traceLog[i] => traceLog[i + 1] = NL
    /\ \A a \in Agents : Appended(a) =>
          LET places == placesOf(traceLog, traceEntry(a)) IN
          /\ Cardinality(places) = 1
          /\ \A i \in places : i < Len(traceLog) /\ traceLog[i + 1] = NL
          /\ Len(entriesWithId(traceLog, local[a].uuid)) = 1

\* both calls in flight have appended, the later call first
C16_Witness ==
    /\ \A a \in Agents : Appended(a)
    /\ Len(readTraceLog(traceLog)) = 2
    /\ readTraceLog(traceLog)[1].id = <<"uuid", 2>>
    /\ readTraceLog(traceLog)[2].id = <<"uuid", 1>>

\* the recorder call of agent a has written the intent map and has not returned
Mapped(a) == pc[a] = "release" /\ local[a].mapped

\* C17: intent-map updates of one workspace do not interleave and none is
\* lost: once concurrent post-write flows have updated the map, the map has
\* the section of each of them with its path, and the ledger has the entry of
\* each of them.
C17_NoMapUpdateLost ==
    \A a \in Agents : Mapped(a) =>
       /\ call[a].intentId \in loadIntentMap(intentMap).ids
       /\ <<call[a].intentId, call[a].path>> \in loadIntentMap(intentMap).files
       /\ rowInLedger(traceLog, traceEntry(a))

\* the paths that have a trace row related to the intent
tracedPaths(text, intentId) ==
    {readTraceLog(text)[i].files[1].relative_path :
        i \in {j \in 1..Len(readTraceLog(text)) :
                  \E k \in 1..Len(readTraceLog(text)[j].files[1].conversations[1].related) :
                     readTraceLog(text)[j].files[1].conversations[1].related[k].value
                        = intentId}}

\* the step in which the recorder call of agent a, the only call in flight,
\* has its map update succeed
MapUpdateSucceeds(a) ==
    /\ pc[a] = "mapWrite" /\ pc'[a] = "release"
    /\ \A b \in Agents \ {a} : pc[b] = "idle"

\* C18: a successful post-write flow for an intent repairs the map: after its
\* map update the section of the intent lists every path that has a trace row
\* for the intent, also a path whose own map update had failed after its row
\* was appended.
C18_NextWriteRepairsMap ==
    [][\A a \in Agents : MapUpdateSucceeds(a) =>
          \A p \in tracedPaths(traceLog', call[a].intentId) :
             <<call[a].intentId, p>> \in loadIntentMap(intentMap').files]_vars

\* the step is a removeFromIntentMap(id, p) that succeeds directly after an
\* updateIntentMap(id, p) that succeeded
UpsertThenRemove ==
    /\ Len(results) >= 1 /\ Len(results') = Len(results) + 1
    /\ results[Len(results)].op = "updateIntentMap"
    /\ results'[Len(results')].op = "removeFromIntentMap"
    /\ results[Len(results)].ret = "ok" /\ results'[Len(results')].ret = "ok"
    /\ results'[Len(results')].intentId = results[Len(results)].intentId
    /\ results'[Len(results')].path = results[Len(results)].path

\* the map before the last call
mapBefore(rs) == loadIntentMap(rs[Len(rs)].before)

\* intent_map.md is absent, or as the writer writes it: every section has a
\* named header and lists a file
writerMade(content) ==
    \/ content = ENOENT
    \/ /\ content = buildIntentMapContent(loadIntentMap(content))
       /\ \A i \in loadIntentMap(content).ids :
             \E f \in loadIntentMap(content).files : f[1] = i

\* C19 as stated: for every map state, id and p, upsert(id, p) followed by
\* remove(id, p) leaves the sections, their paths and their display names as
\* they were before the upsert, also when p was already listed under id or id
\* had a section before.
C19_UpsertRemoveRestoresAlways ==
    [][UpsertThenRemove => loadIntentMap(intentMap') = mapBefore(results)]_vars

\* C19 amended: for a map that is absent or as the writer writes it, and a
\* path p not listed under id, upsert(id, p) without a display name followed
\* by remove(id, p) leaves the sections, their paths and their display names
\* as they were before the upsert, also when id had a section before.
C19_UpsertRemoveRestoresNewPath ==
    [][(/\ UpsertThenRemove
        /\ writerMade(results[Len(results)].before)
        /\ results[Len(results)].name = Undefined
        /\ <<results[Len(results)].intentId, results[Len(results)].path>>
              \notin mapBefore(results).files)
       => loadIntentMap(intentMap') = mapBefore(results)]_vars

\* a path was added to a section that had another path, and removed again
C19_Witness ==
    /\ Len(results) = 2
    /\ results[1].op = "updateIntentMap" /\ results[1].ret = "ok"
    /\ results[2].op = "removeFromIntentMap" /\ results[2].ret = "ok"
    /\ results[1].intentId = results[2].intentId /\ results[1].path = results[2].path
    /\ results[1].name = Undefined
    /\ writerMade(results[1].before)
    /\ results[1].intentId \in loadIntentMap(results[1].before).ids
    /\ <<results[1].intentId, results[1].path>> \notin loadIntentMap(results[1].before).files
    /\ <<results[1].intentId, results[1].path>> \in loadIntentMap(results[2].before).files
    /\ loadIntentMap(intentMap) = loadIntentMap(results[1].before)

\* the step is a recordLesson call with the lesson text of the call before,
\* which had recorded it
SameLessonAgain ==
    /\ Len(results) >= 1 /\ Len(results') = Len(results) + 1
    /\ results[Len(results)].op = "recordLesson"
    /\ results'[Len(results')].op = "recordLesson"
    /\ results[Len(results)].ret /\ ~results'[Len(results')].threw
    /\ results'[Len(results')].lesson = results[Len(results)].lesson

\* C20: of two consecutive record calls with the same body the first returns
\* true and the second returns false, and over the two calls the lessons
\* document grows by exactly one section, which contains the body.
C20_SecondRecordIsDuplicate ==
    [][SameLessonAgain =>
          LET before == readClaudeBrain(results[Len(results)].before)
              after == readClaudeBrain(claudeMd')
          IN /\ ~results'[Len(results')].ret
             /\ Len(lessonSections(after)) = Len(lessonSections(before)) + 1
             /\ includes(lessonSections(after)[Len(lessonSections(after))],
                         trim(results[Len(results)].lesson))]_vars

\* the sections of the document that hold the lesson text
sectionsWith(content, lesson) ==
    SelectSeq(lessonSections(readClaudeBrain(content)),
              LAMBDA sec : includes(sec, trim(lesson)))

\* C21: lesson recording is serialised per workspace: of the record calls
\* with one body, concurrent or not, at most one returns true, and the
\* document holds at most one section with that body.
C21_RecordSerialised ==
    /\ \A i, j \in 1..Len(results) :
          (i < j /\ results[i].op = "recordLesson" /\ results[j].op = "recordLesson"
                 /\ results[i].lesson = results[j].lesson)
             => ~(results[i].ret /\ results[j].ret)
    /\ \A lesson \in RecordLessons : Len(sectionsWith(claudeMd, lesson)) <= 1

\* the last n elements of a sequence
lastOf(seq, n) == [i \in 1..Min(n, Len(seq)) |-> seq[Len(seq) - Min(n, Len(seq)) + i]]

\* the text occurs within the last five sections of the document
occursInWindow(content, text) ==
    LET window == lastOf(lessonSections(readClaudeBrain(content)), 5)
    IN Len(window) > 0 /\ includes(join(window, "\n"), text)

\* the step is a recordLesson call that returns
RecordReturns ==
    /\ Len(results') = Len(results) + 1
    /\ results'[Len(results')].op = "recordLesson"
    /\ ~results'[Len(results')].threw

\* C22: record returns false and leaves the document as it is exactly when
\* the trimmed body occurs within the last five sections of the document;
\* otherwise (also when the body occurs only before the last five sections)
\* it returns true and appends the one formatted lesson.
C22_DuplicateWindowIsFive ==
    [][RecordReturns =>
          LET r == results'[Len(results')] IN
          IF occursInWindow(claudeMd, trim(r.lesson))
          THEN ~r.ret /\ claudeMd' = claudeMd
          ELSE /\ r.ret
               /\ claudeMd' = readClaudeBrain(claudeMd)
                                 \o formatLesson(r.category, r.lesson)]_vars

\* a lesson that the document holds only before its last five sections was
\* recorded again
C22_Witness ==
    /\ Len(results) >= 1
    /\ results[1].lesson = <<"a">> /\ results[1].ret
    /\ Len(lessonSections(readClaudeBrain(results[1].before))) = 6
    /\ includes(lessonSections(readClaudeBrain(results[1].before))[1], <<"a">>)
    /\ Len(sectionsWith(claudeMd, <<"a">>)) >= 2

\* the step is a call of the record_lesson tool that did not end in handleError
ToolReturns ==
    /\ Len(results') = Len(results) + 1
    /\ results'[Len(results')].op = "record_lesson"
    /\ results'[Len(results')].pushed # "handleError"

\* C23: the record_lesson tool records or skips the lesson for every category
\* of the enumeration, and rejects exactly the calls whose category is outside
\* the enumeration or whose category or lesson is missing: these get a tool
\* error, one more counted mistake and no write to the lessons file.
C23_ToolAcceptsEnumeration ==
    [][ToolReturns =>
          LET r == results'[Len(results')]
              rejected == r.pushed \in {"toolError: missing parameter",
                                        "toolError: invalid category"}
          IN /\ rejected <=> (r.category \notin LessonCategory \/ r.lesson = <<>>)
             /\ rejected =>
                   /\ task'.consecutiveMistakeCount = task.consecutiveMistakeCount + 1
                   /\ claudeMd' = claudeMd
             /\ ~rejected => task' = task]_vars

\* the step unregisters the session of a: the session goes away although it
\* is not stale (the sweeper removes stale sessions only)
Unregistered(a) ==
    /\ sessions[a] # Nil
    /\ sessions'[a] = Nil
    /\ now - sessions[a].lastActivity <= SESSION_TIMEOUT

\* C26: after unregister(id) of a session no snapshot held by id remains in
\* the snapshot store.
C26_UnregisterReleasesSnapshots ==
    [][\A a \in Agents :
          Unregistered(a) =>
             \A p \in Paths : snapshots'[p] = Nil \/ snapshots'[p].agentId # a]_vars

\* the step is a call of writeFilePreHook by agent a, carrying a's id
GateInvoked(a) ==
    /\ pc[a] = "idle"
    /\ pc'[a] \in {"verify", "blocked", "gated"}
    /\ call'[a].agentId = a

\* the step is a read pre-hook of agent a that captured a snapshot
ReadHookCaptured(a) ==
    /\ pc[a] = "idle" /\ pc'[a] = "idle"
    /\ \E p \in Paths : held'[a][p] # Nil /\ held'[a][p] # held[a][p]

\* the step added a file to the session of a
FileAdded(a) ==
    /\ sessions[a] # Nil /\ sessions'[a] # Nil
    /\ sessions'[a].files # sessions[a].files
    /\ sessions[a].files \subseteq sessions'[a].files

\* C27: every add_file, every read pre-hook and every write pre-hook call that
\* carries the id of a registered session sets the last-activity of that
\* session to the current time.
C27_HooksTouchSession ==
    [][\A a \in Agents :
          (sessions[a] # Nil /\ (GateInvoked(a) \/ ReadHookCaptured(a) \/ FileAdded(a)))
             => /\ sessions'[a] # Nil
                /\ sessions'[a].lastActivity = now]_vars

\* C28: every session of the registry has last-activity >= creation time.
C28_ActivityNotBeforeCreation ==
    \A a \in Agents :
       sessions[a] # Nil => sessions[a].lastActivity >= sessions[a].createdAt

\* a session registered after the start of the clock, with a file, that was
\* active later than its creation
C28_Witness ==
    \E a \in Agents :
       /\ sessions[a] # Nil
       /\ sessions[a].createdAt > 0
       /\ sessions[a].lastActivity > sessions[a].createdAt
       /\ sessions[a].files # {}

\* the step is a direct call of the store operation op
StoreCalled(op) ==
    /\ Len(results') = Len(results) + 1
    /\ results'[Len(results')].op = op

\* the store keeps snapshot s of path p unchanged, or drops it
keeps(p) == snapshots'[p] = snapshots[p]
drops(p) == snapshots[p] # Nil /\ snapshots'[p] = Nil

\* C29: release(path, holder) removes the snapshot of path only if that
\* holder holds it and otherwise changes nothing; release_all(holder) removes
\* exactly the snapshots held by that holder and leaves all others in place.
C29_ReleaseFrame ==
    [][/\ StoreCalled("releaseSnapshot") =>
             LET r == results'[Len(results')]
             IN \A p \in Paths :
                   IF /\ p = r.filePath
                      /\ snapshots[p] # Nil
                      /\ snapshots[p].agentId = r.agentId
                   THEN drops(p) ELSE keeps(p)
       /\ StoreCalled("releaseAllForAgent") =>
             LET r == results'[Len(results')]
             IN \A p \in Paths :
                   IF snapshots[p] # Nil /\ snapshots[p].agentId = r.agentId
                   THEN drops(p) ELSE keeps(p)]_vars

\* a release by a holder that did not hold the snapshot left it in place, and
\* then the release_all of a holder took its snapshot away while the snapshot
\* of the other holder stayed
C29_Witness ==
    /\ Len(results) = 2
    /\ results[1].op = "releaseSnapshot"
    /\ results[1].removed = 0
    /\ snapshots[results[1].filePath] # Nil
    /\ snapshots[results[1].filePath].agentId # results[1].agentId
    /\ results[2].op = "releaseAllForAgent"
    /\ results[2].removed = 1
    /\ \E p \in Paths : snapshots[p] = Nil

GitSettled(a) == pc[a] = "revision" /\ pc'[a] # "revision"

\* the flow of agent a, whose git call failed, appended its row
RowAppendedAfterFailure(a) ==
    /\ pc[a] = "append"
    /\ local[a].gitFailed
    /\ pc'[a] = "mapRead"

\* C24: getCurrentRevision never raises: whatever the failure of git, it
\* returns "unknown", the post-write flow goes on to append its trace row, and
\* the row it appends has vcs.revision_id = "unknown".
C24_UnknownRevisionStillTraced ==
    [][\A a \in Agents :
          /\ GitSettled(a) =>
                /\ pc'[a] = "append"
                /\ verdict'[a] # "threw"
                /\ local'[a].revision \in Revisions
                /\ local'[a].gitFailed => local'[a].revision = "unknown"
          /\ RowAppendedAfterFailure(a) =>
                \E i \in (Len(traceLog) + 1)..Len(traceLog') :
                   /\ "json" \in DOMAIN traceLog'[i]
                   /\ traceLog'[i].json.id = local[a].uuid
                   /\ traceLog'[i].json.vcs.revision_id = "unknown"]_vars

\* a flow whose git call failed has appended its row, with revision "unknown"
C24_Witness ==
    \E a \in Agents :
       /\ local[a].gitFailed
       /\ local[a].appended
       /\ Len(traceLog) >= 1
       /\ \E i \in 1..Len(traceLog) :
             /\ "json" \in DOMAIN traceLog[i]
             /\ traceLog[i].json.vcs.revision_id = "unknown"
             /\ traceLog[i].json.id = local[a].uuid

\* the step is the return of a getCurrentRevision call
RevisionReturned ==
    /\ Len(results') = Len(results) + 1
    /\ results'[Len(results')].op = "getCurrentRevision"

\* the cache was cleared after call i was over and before call r began
clearedBetween(i, r) ==
    \E j \in (i + 1)..r.seen : results[j].op = "clearGitCache"

\* C25: once a getCurrentRevision call for a root has completed, every call
\* for that root begun later and within the cache TTL returns the same value
\* without running git; after clearGitCache the next call runs git; a call
\* for one root neither returns nor changes the cache entry of another root.
C25_CachePerRootWithinTTL ==
    [][RevisionReturned =>
          LET r == results'[Len(results')] IN
          /\ \A i \in 1..r.seen :
                ( /\ results[i].op = "getCurrentRevision"
                  /\ results[i].root = r.root
                  /\ r.startedAt - results[i].completedAt < CACHE_TTL_MS
                  /\ ~clearedBetween(i, r) )
                => /\ ~r.spawned
                   /\ r.ret = results[i].ret
          /\ (r.seen >= 1 /\ results[r.seen].op = "clearGitCache") => r.spawned
          /\ r.root = "root" => gitCacheElse' = gitCacheElse
          /\ r.root = "else" => gitCache' = gitCache
          /\ ~r.spawned => /\ cacheOf(r.root) # Nil
                           /\ r.ret = cacheOf(r.root).revision]_vars

\* the place of an id, and of a path, in the ascending order
idRank(id) == CHOOSE k \in 1..Len(IdOrder) : IdOrder[k] = id
pathRank(path) == CHOOSE k \in 1..Len(PathOrder) : PathOrder[k] = path

\* lines i < j of the file lie in one section: no header from i + 1 to j
sameSection(content, i, j) == \A k \in (i + 1)..j : "h" \notin DOMAIN content[k]

\* the sections are in ascending id order without a repeated id; within a
\* section the paths are in ascending order without a repeated path, and
\* every path is written with forward slashes
sortedAndUnique(content) ==
    \A i, j \in 1..Len(content) :
       /\ "b" \in DOMAIN content[i] => "sep" \notin DOMAIN content[i]
       /\ (i < j /\ "h" \in DOMAIN content[i] /\ "h" \in DOMAIN content[j])
             => idRank(content[i].h) < idRank(content[j].h)
       /\ (i < j /\ "b" \in DOMAIN content[i] /\ "b" \in DOMAIN content[j]
             /\ sameSection(content, i, j))
             => pathRank(content[i].b) < pathRank(content[j].b)

\* the step is an upsert or a remove that wrote intent_map.md
MapWritten ==
    /\ Len(results') = Len(results) + 1
    /\ results'[Len(results')].op \in {"updateIntentMap", "removeFromIntentMap"}
    /\ results'[Len(results')].ret = "ok"
    /\ intentMap' # ENOENT

\* the step repeats the upsert that succeeded just before it
UpsertRepeated ==
    /\ MapWritten
    /\ Len(results) >= 1
    /\ results[Len(results)].op = "updateIntentMap"
    /\ results[Len(results)].ret = "ok"
    /\ results'[Len(results')].op = "updateIntentMap"
    /\ results'[Len(results')].intentId = results[Len(results)].intentId
    /\ results'[Len(results')].path = results[Len(results)].path
    /\ results'[Len(results')].name = results[Len(results)].name

\* C31: after an upsert or a remove the sections of the intent map are in
\* ascending id order and the paths of every section are unique, written with
\* forward slashes and in ascending order; an upsert made twice leaves the
\* map as the first one left it.
C31_MapSortedAndUnique ==
    [][/\ MapWritten => sortedAndUnique(intentMap')
       /\ UpsertRepeated => intentMap' = intentMap]_vars

\* a map written by hand, out of order and with a path listed twice, was
\* rewritten by an upsert made twice, and holds two sections and a section
\* with two paths
C31_Witness ==
    /\ Len(results) = 2
    /\ results[1].before = HandWrittenMap
    /\ results[1].op = "updateIntentMap" /\ results[1].ret = "ok"
    /\ results[2] = [results[1] EXCEPT !.before = results[2].before]
    /\ results[2].before = intentMap
    /\ Cardinality(loadIntentMap(intentMap).ids) = 2
    /\ \E i \in 1..(Len(intentMap) - 1) :
          "b" \in DOMAIN intentMap[i] /\ "b" \in DOMAIN intentMap[i + 1]

\* the snapshot of path p was captured at time ts and is old enough for
\* every sweep once the clock has advanced
expiring(p, ts) ==
    /\ snapshots[p] # Nil
    /\ snapshots[p].timestamp = ts
    /\ \E t \in SweepTimes : \A maxAgeMs \in SweepAges : t - ts > maxAgeMs

\* the field cleanupInterval names the one active timer, or there is none
oneTimer ==
    /\ Cardinality(timers) <= 1
    /\ cleanupInterval = Nil <=> timers = {}
    /\ \A t \in timers : t.handle = cleanupInterval

\* whatever the store holds, an idle agent can capture, release and call the
\* gatekeeper, and a gatekeeper call that awaits the file goes on
nothingWaits ==
    \A a \in Agents :
       /\ pc[a] = "idle" =>
             \A p \in FlowPaths :
                /\ ENABLED storeTake(a, p, ContentY)
                /\ ENABLED releaseSnapshotCall(a, p)
                /\ (\A b \in Agents : pc[b] = "idle")
                      => ENABLED writeFilePreHook(a, p, "INT-001", Undefined, a)
       /\ pc[a] = "verify" => ENABLED writeFilePreHookResume(a)

HappyWriteTraced(a) ==
    /\ pc[a] = "append" /\ pc'[a] = "mapRead"
    /\ call[a].intentId = "INT-001"
    /\ call[a].content = ContentY
    /\ guarded(a)

\* C33: in the happy write of a one-line content that ends with a line break
\* the ledger gains one entry whose single range is lines 1 to 1 with the
\* digest of the line without the line break.
C33_TrailingNewlineNotCounted ==
    [][\A a \in Agents :
          HappyWriteTraced(a) =>
             LET ranges == traceEntry(a).files[1].conversations[1].ranges IN
             /\ Len(readTraceLog(traceLog')) = Len(readTraceLog(traceLog)) + 1
             /\ rowInLedger(traceLog', traceEntry(a))
             /\ Len(ranges) = 1
             /\ ranges[1].start_line = Num(1)
             /\ ranges[1].end_line = Num(1)
             /\ ranges[1].content_hash = <<"sha256:">> \o sha256(<<"y">>)]_vars

\* C34: whatever the content and its line endings, the single range the
\* recorder writes is lines 1 to lineCount(content) and its hash is the digest
\* of the whole content.
C34_RangeCoversWholeFile ==
    [][\A a \in Agents :
          (pc[a] = "append" /\ pc'[a] = "mapRead") =>
             LET ranges == traceEntry(a).files[1].conversations[1].ranges IN
             /\ rowInLedger(traceLog', traceEntry(a))
             /\ Len(ranges) = 1
             /\ ranges[1].start_line = Num(1)
             /\ ranges[1].end_line = Num(lineCount(call[a].content))
             /\ ranges[1].content_hash = <<"sha256:">> \o sha256(call[a].content)]_vars

\* the flow of a appends its row: appendToTraceLog has resolved
RowAppended(a) ==
    /\ pc[a] = "append" /\ pc'[a] = "mapRead"
    /\ rowInLedger(traceLog', traceEntry(a))

\* the class in the newest row of the ledger
recordedClass(log) == readTraceLog(log)[Len(readTraceLog(log))].mutation_class

ClassifiedRow(a) ==
    /\ pc[a] = "append" /\ pc'[a] = "mapRead"
    /\ "oldContent" \in DOMAIN call[a]
    /\ call[a].mutation_class = Undefined

\* a token matching a bug-fix pattern stands in a line that only one of the
\* two contents has
patternInChangedLines(old, new) ==
    LET linesOf(x) == {split(x, "\n")[i] : i \in 1..Len(split(x, "\n"))}
        changed == (linesOf(new) \ linesOf(old)) \cup (linesOf(old) \ linesOf(new))
        words == UNION {BUG_FIX_PATTERNS[p] : p \in 1..Len(BUG_FIX_PATTERNS)}
    IN \E l \in changed : \E i \in 1..Len(l) : l[i] \in words

C37_ValueChangeIsRefactor ==
    [][\A a \in Agents :
          (/\ ClassifiedRow(a)
           /\ call[a].oldContent = ConstX1
           /\ call[a].content = ConstX2Updated) =>
             /\ RowAppended(a)
             /\ recordedClass(traceLog') = "AST_REFACTOR"]_vars

\* C38: the lessons file, once it exists, begins with the fixed header: the
\* first record into a workspace without the file creates it with the header
\* and the lesson section after it, and later records append after that.
C38_LessonsFileBeginsWithHeader ==
    claudeMd # ENOENT =>
       /\ isPrefix(getInitialHeader, claudeMd)
       /\ \A i \in 1..Len(results) :
             (results[i].ret /\ results[i].before = ENOENT) =>
                isPrefix(getInitialHeader \o
                            formatLesson(results[i].category, results[i].lesson),
                         claudeMd)

\* C39: where nobody but the writer changes the file, the gatekeeper never
\* answers the writer with StaleFile: the writes it committed itself, whatever
\* became of the recorder's append and map update, do not block it.
C39_NotStaleByOwnWrite ==
    \A a \in Agents : verdict[a] # "StaleFile"

\* the entries hold one for the path whose related value is the intent
tracedUnder(entries, intentId, filePath) ==
    \E i \in 1..Len(entries) :
       \E f \in 1..Len(entries[i].files) :
          LET file == entries[i].files[f] IN
          /\ file.relative_path = filePath
          /\ \E k \in 1..Len(file.conversations) :
                \E r \in 1..Len(file.conversations[k].related) :
                   file.conversations[k].related[r].value = intentId

====
